---- MODULE Spec2Model ----
(***************************************************************************)
(* A model of the SDIO host model (sdio_host.py, sdio_phy_drivers.py,      *)
(* sdio_utils.py).                                                         *)
(*                                                                         *)
(* The host is a set of cooperative fibres (cocotb coroutines).  A fibre   *)
(* runs without interruption from one suspension point (a yield on a clock *)
(* edge or on the lease event) to the next, so every action below is one   *)
(* such run.  There is no global clock in the model: a wait of n edges is  *)
(* n steps of the waiting fibre (or one step where the number of edges is  *)
(* of no consequence), and the other fibres may take any number of steps   *)
(* in between.  Which of several runnable fibres the scheduler resumes     *)
(* first is not fixed by the sources and is left open.                     *)
(*                                                                         *)
(* Two specifications share the variables:                                 *)
(*   SpecLease  the command-bus lease alone, NumFibres fibres that         *)
(*              acquire and release it in a loop;                          *)
(*   Spec       the host: fibre 1 makes one call of a command method       *)
(*              (CMD53 with its data phase included), fibre 2 calls        *)
(*              send_abort (two CMD52s) while a CMD53 is in progress,      *)
(*              and the test bench may raise the abort flags.              *)
(***************************************************************************)
EXTENDS Integers, Sequences, FiniteSets, TLC

\* ------------------------------------------------------------------ bounds

NumFibres == 3
Fibres == 1..NumFibres

MaxCount == 2        \* the largest count argument of cmd_io_rw_extended tried
MaxBlockSize == 1    \* the largest blocksize argument tried
MaxReadWait == 1     \* the largest read_wait argument tried

\* --------------------------------------------------------- program constants

QuietEdges == 4      \* for _ in range(0,4): yield FallingEdge(self.clock)
GapEdgesNative == 2  \* two FallingEdge between read blocks
GapEdgesSpi == 8     \* for _ in range(0,8): yield RisingEdge between read blocks
ByteModeDefault == 512   \* docstring: block == 0 ? 0: 512 bytes

\* ------------------------------------------------------------------- state

VARIABLES
    cmd_bus_busy,        \* phy.cmd_bus_busy
    event_fired,         \* phy.cmd_bus_busy_event.fired
    event_pending,       \* phy.cmd_bus_busy_event._pending: the fibres blocked in wait()
    lock,                \* per fibre, where it stands with respect to the lease:
                         \* "none", "waiting" (blocked in wait()), "woken" (set() has
                         \* fired its trigger, not yet resumed), "held" (between a
                         \* completed acquire_cmd_lock and its release_cmd_lock)
    call_order           \* history: the fibres with an acquire_cmd_lock call not yet
                         \* matched by a release_cmd_lock, in the order of their calls

VARIABLES
    data_write_aborted,  \* phy.data_write_aborted
    data_read_aborted,   \* phy.data_read_aborted
    read_wait_asserted,  \* phy.read_wait(True) in force: D2 driven low by the host
    spi_mode,            \* host.spi_mode
    fib,                 \* per host fibre: pc, the call in progress (call), the
                         \* response received (resp), the outcome (out), the edges
                         \* left to wait (cnt), the error to raise after the
                         \* quiet period (err), and whether fibre 1 was in its data
                         \* phase when this fibre last called acquire_cmd_lock
                         \* (acq_at, history)
    xs,                  \* locals of the cmd_io_rw_extended call of fibre 1:
                         \* its arguments, blockcount, data, blockdata, crc_resp;
                         \* the data-phase invocations made (log, history), how it
                         \* ended (path, history) and what it returned (result)
    abort_set_at         \* history: where fibre 1 stood when data_read_aborted
                         \* was last raised ("none": not raised in this call)

leaseVars == <<cmd_bus_busy, event_fired, event_pending, lock, call_order>>

hostVars == <<data_write_aborted, data_read_aborted, read_wait_asserted, spi_mode,
              fib, xs, abort_set_at>>

hostVarsButFib == <<data_write_aborted, data_read_aborted, read_wait_asserted,
                    spi_mode, xs, abort_set_at>>

VARIABLES
    host,                \* the fields SDIOHost.init_state sets up: rca, fn_cis_addrs,
                         \* fn_max_blocksizes, fn_count, cis_data
    wire,                \* history: the command frames sdio_init has put on the wire
    sq,                  \* sdio_init: its position, arguments and locals
    fx,                  \* one application of a function of the sources: its
                         \* inputs and its result
    bus_width            \* phy.bus_width

extVars == <<host, wire, sq, fx, bus_width>>

vars == <<leaseVars, hostVars, extVars>>

\* ------------------------------------------------------------- the lease

RemoveFirst(s, f) ==
    LET idx == {i \in 1..Len(s): s[i] = f}
    IN  IF idx = {} THEN s
        ELSE LET k == CHOOSE i \in idx: \A j \in idx: i <= j
             IN  [i \in 1..(Len(s) - 1) |-> IF i < k THEN s[i] ELSE s[i + 1]]

InSeq(s, f) == \E i \in 1..Len(s): s[i] = f

\* acquire_cmd_lock, from the call to its first suspension or to its return:
\*     if self.cmd_bus_busy: yield self.cmd_bus_busy_event.wait()
\*     self.cmd_bus_busy_event.clear(); self.cmd_bus_busy = True
acquire_cmd_lock(f) ==
    /\ lock[f] = "none"
    /\ call_order' = Append(call_order, f)
    /\ IF cmd_bus_busy
         THEN /\ event_pending' = Append(event_pending, f)
              /\ lock' = [lock EXCEPT ![f] = "waiting"]
              /\ UNCHANGED <<cmd_bus_busy, event_fired>>
         ELSE /\ event_fired' = FALSE
              /\ cmd_bus_busy' = TRUE
              /\ lock' = [lock EXCEPT ![f] = "held"]
              /\ UNCHANGED event_pending

\* acquire_cmd_lock, resumed after wait(): the busy flag is not looked at again.
acquire_cmd_lock_resume(f) ==
    /\ lock[f] = "woken"
    /\ event_fired' = FALSE
    /\ cmd_bus_busy' = TRUE
    /\ lock' = [lock EXCEPT ![f] = "held"]
    /\ UNCHANGED <<event_pending, call_order>>

\* A variant of release_cmd_lock that does not set the event: it shows that
\* C39 depends on the release waking the fibres that wait.
release_cmd_lock_without_set(f) ==
    /\ lock[f] = "held"
    /\ cmd_bus_busy' = FALSE
    /\ lock' = [lock EXCEPT ![f] = "none"]
    /\ call_order' = RemoveFirst(call_order, f)
    /\ UNCHANGED <<event_fired, event_pending>>

\* release_cmd_lock: self.cmd_bus_busy = False; self.cmd_bus_busy_event.set().
\* Event.set() fires the trigger of every fibre blocked in wait().
release_cmd_lock(f) ==
    /\ lock[f] = "held"
    /\ cmd_bus_busy' = FALSE
    /\ event_fired' = TRUE
    /\ event_pending' = <<>>
    /\ lock' = [g \in Fibres |->
                  IF g = f THEN "none"
                  ELSE IF InSeq(event_pending, g) THEN "woken"
                  ELSE lock[g]]
    /\ call_order' = RemoveFirst(call_order, f)

LeaseInit ==
    /\ cmd_bus_busy = FALSE
    /\ event_fired = FALSE
    /\ event_pending = <<>>
    /\ lock = [f \in Fibres |-> "none"]
    /\ call_order = <<>>

\* ------------------------------------------------------ values and helpers

HostFibres == {1, 2}

Bit(x, n) == (x \div (2 ^ n)) % 2

\* The command numbers the host's command methods send.
CmdOf(m) ==
    CASE m = "cmd_go_idle" -> 0
      [] m = "cmd_send_relative_addr" -> 3
      [] m = "cmd_send_op_cond" -> 5
      [] m = "cmd_select_card" -> 7
      [] m = "cmd_send_if_cond" -> 8
      [] m = "cmd_io_rw_direct" -> 52
      [] m = "send_abort" -> 52
      [] m = "cmd_io_rw_extended" -> 53

SimpleMethods == {"cmd_go_idle", "cmd_send_relative_addr", "cmd_send_op_cond",
                  "cmd_select_card", "cmd_send_if_cond"}

\* sdio_utils.get_response_type: the assignments to rv in the order of the code,
\* a later one overriding an earlier one ("unbound": rv never assigned).
get_response_type(cmd_num) ==
    LET rv0 == IF cmd_num \in {0, 4, 15} THEN "None" ELSE "unbound"
        rv1 == IF cmd_num \in {11, 13, 16, 17, 18, 19, 23, 55, 56} THEN "R1" ELSE rv0
        rv2 == IF cmd_num \in {7, 12, 20} THEN "R1b" ELSE rv1
        rv3 == IF cmd_num \in {2, 9, 10} THEN "R2" ELSE rv2
        rv4 == IF cmd_num \in {4, 5} THEN "R4" ELSE rv3
        rv5 == IF cmd_num \in {52, 53} THEN "R5" ELSE rv4
        rv6 == IF cmd_num \in {3} THEN "R6" ELSE rv5
        rv7 == IF cmd_num \in {8} THEN "R7" ELSE rv6
    IN  <<rv7, IF cmd_num \in {2, 9, 10} THEN 136 ELSE 48>>

\* sdio_utils.get_spi_response_type
get_spi_response_type(cmd_num) ==
    IF cmd_num \in {52, 53} THEN <<"R5", 16>>
    ELSE IF cmd_num \in {5} THEN <<"R4", 40>>
    ELSE IF cmd_num \in {8} THEN <<"R7", 40>>
    ELSE <<"R1", 8>>

\* What the device may put on the command line in answer to a command, by its
\* fields: crc_ok (the CRC7 field [7:1] equals crc7_gen of bits [47:8]),
\* cmd_field (bits [45:40]), the R1 card status (the set of its fatal bits that
\* are set, and CURRENT_STATE, bits [12:9]), the R5 flags (bits [23:16]), the
\* data byte, and in SPI mode the R1 byte.  Only the fields the response
\* type carries are varied, and the data byte only where the host reads it
\* (CMD52).
R5FlagVals == {0, 48, 128, 64, 8, 2, 1}
RegVals == {0, 90}
SpiR1Vals == {0, 128, 16, 8, 4}
StatusBitVals == {{}, {31}, {23}, {22}, {19}}
CrcRespVals == {2, 5}

NoResp == [valid |-> FALSE, crc_ok |-> TRUE, cmd_field |-> 0, status_bits |-> {},
           state |-> 15, flags |-> 0, data |-> 0, r1 |-> 0]

Responses(spi, cmd_num) ==
    LET type == IF spi THEN get_spi_response_type(cmd_num)[1]
                ELSE get_response_type(cmd_num)[1]
        base == [NoResp EXCEPT !.valid = TRUE, !.cmd_field = cmd_num]
    IN  IF spi
          THEN {[base EXCEPT !.r1 = r, !.data = d]:
                    r \in SpiR1Vals, d \in (IF cmd_num = 52 THEN RegVals ELSE {0})}
          ELSE {[base EXCEPT !.crc_ok = c, !.cmd_field = e, !.status_bits = sb,
                             !.state = st, !.flags = fl, !.data = d]:
                    c \in BOOLEAN,
                    e \in {cmd_num, 63},
                    sb \in (IF type \in {"R1", "R1b"} THEN StatusBitVals ELSE {{}}),
                    st \in (IF type \in {"R1", "R1b"} THEN {15, 0} ELSE {15}),
                    fl \in (IF type = "R5" THEN R5FlagVals ELSE {0}),
                    d \in (IF cmd_num = 52 THEN RegVals ELSE {0})}

NoErr == [kind |-> "ok", quiet |-> FALSE]
Err(k, q) == [kind |-> k, quiet |-> q]

\* A variant of get_cmd_response_check without the test of the echoed command
\* number: it shows that C11 depends on that test.
get_cmd_response_check_no_echo(spi, cmd_num, r) ==
    IF spi
      THEN IF Bit(r.r1, 7) = 1 \/ Bit(r.r1, 4) = 1 \/ Bit(r.r1, 3) = 1 \/ Bit(r.r1, 2) = 1
             THEN Err("SDIOResponseError", TRUE)
             ELSE NoErr
      ELSE IF ~r.crc_ok THEN Err("SDIOProtocolError", TRUE)
           ELSE IF get_response_type(cmd_num)[1] \in {"R1", "R1b"}
                   /\ (r.status_bits \cap {31, 23, 22, 19} # {} \/ r.state # 15)
             THEN Err("SDIOResponseError", TRUE)
           ELSE NoErr

\* A variant of r5_flags_check that looks at the two top flags only: it shows
\* that C12 depends on the tests of the flags 3, 1 and 0.
r5_flags_check_top(spi, r) ==
    IF ~spi /\ (Bit(r.flags, 7) = 1 \/ Bit(r.flags, 6) = 1)
      THEN Err("SDIOResponseError", TRUE)
      ELSE NoErr

\* SDIOHost.get_cmd_response, the checks made on a received response, in the
\* order of the code: the error raised (or "ok") and whether the quiet period
\* of four falling edges precedes the raise.
get_cmd_response_check(spi, cmd_num, r) ==
    LET type == IF spi THEN get_spi_response_type(cmd_num)[1]
                ELSE get_response_type(cmd_num)[1]
    IN  IF spi
          THEN IF Bit(r.r1, 7) = 1 \/ Bit(r.r1, 4) = 1 \/ Bit(r.r1, 3) = 1 \/ Bit(r.r1, 2) = 1
                 THEN Err("SDIOResponseError", TRUE)
                 ELSE NoErr
          ELSE IF ~r.crc_ok THEN Err("SDIOProtocolError", TRUE)
               ELSE IF type = "R4" /\ r.cmd_field # 63 THEN Err("SDIOProtocolError", FALSE)
               ELSE IF type # "R4" /\ r.cmd_field # cmd_num THEN Err("SDIOProtocolError", TRUE)
               ELSE IF type \in {"R1", "R1b"}
                       /\ (r.status_bits \cap {31, 23, 22, 19} # {} \/ r.state # 15)
                 THEN Err("SDIOResponseError", TRUE)
               ELSE NoErr

\* cmd_io_rw_direct / cmd_io_rw_extended: the R5 flag checks made after the
\* lease is released (native mode only; in SPI mode the flags are not looked at).
r5_flags_check(spi, r) ==
    IF ~spi /\ (Bit(r.flags, 7) = 1 \/ Bit(r.flags, 6) = 1 \/ Bit(r.flags, 3) = 1
                \/ Bit(r.flags, 1) = 1 \/ Bit(r.flags, 0) = 1)
      THEN Err("SDIOResponseError", TRUE)
      ELSE NoErr

NoCall == [m |-> "none", rw |-> 0, tp |-> FALSE, fn |-> 0, data |-> 0, stage |-> 0]
NoOut == [kind |-> "none", val |-> 0]
IdleFibre == [pc |-> "idle", call |-> NoCall, resp |-> NoResp, out |-> NoOut,
              cnt |-> 0, err |-> "none", acq_at |-> "none"]

NoXfer == [block |-> 0, count |-> 0, blocksize |-> 0, could_abort |-> TRUE,
           read_wait |-> 0,
           blockcount |-> 0, data |-> <<>>, blockdata |-> <<>>, crc_resp |-> 0,
           log |-> <<>>, path |-> "none", result |-> [shape |-> "none", val |-> <<>>]]

\* A variant of blocks that ignores the mode: it shows that C10 depends on
\* byte mode making one pass of the loop.
blocks_any_mode(x) == x.count

\* blocks = count if block else 1
blocks(x) == IF x.block = 1 THEN x.count ELSE 1

\* bytes_to_read = blocksize if block else count
bytes_to_read(x) == IF x.block = 1 THEN x.blocksize ELSE x.count

\* final_block=blockcount+1==blocks
final_block(x) == (x.blockcount + 1 = blocks(x))

\* The byte the device drives as byte i of block k of a read.
DeviceByte(k, i) == (16 * k + i) % 256

DataPcs == {"wpad", "wdata", "rstart", "rbyte", "rcrc", "rcs", "rgap", "rwait"}

HostInit ==
    /\ data_write_aborted = FALSE
    /\ data_read_aborted = FALSE
    /\ read_wait_asserted = FALSE
    /\ spi_mode \in BOOLEAN
    /\ fib = [f \in HostFibres |-> IdleFibre]
    /\ xs = NoXfer
    /\ abort_set_at = "none"


\* The capability flags sdio_init takes from the bits of CCCR 8 (False is 0).
capabilities(reg) ==
    [sdc |-> Bit(reg, 0), smb |-> Bit(reg, 1), srw |-> Bit(reg, 2), sbs |-> Bit(reg, 3),
     s4mi |-> Bit(reg, 4), lsc |-> Bit(reg, 6), b4ls |-> Bit(reg, 7)]

\* SDIOHost.init_state (rca: -1 is None)
init_state ==
    [rca |-> -1,
     caps |-> capabilities(0),
     fn_cis_addrs |-> [fn \in 0..7 |-> 0],
     fn_max_blocksizes |-> [fn \in 0..7 |-> 0],
     fn_count |-> 1,
     cis_data |-> <<>>]

\* sdio_init not called: its position, its arguments and locals, and as
\* history the outcome of the probe, the RCA of the last CMD3 response and the
\* functions whose FBR showed a function code, and the number of calls made.
NoSq == [pc |-> "idle", rca_changes |-> 0, left |-> 0, k |-> 0, fn |-> 0, reg |-> 0,
         probe |-> "none", last_rca |-> -1, err |-> "none", present |-> {}, calls |-> 0]
NoFx == [f |-> "none"]

ExtInit ==
    /\ host = init_state
    /\ wire = <<>>
    /\ sq = NoSq
    /\ fx = NoFx
    /\ bus_width = 1

\* --------------------------------------------------- Spec: the command methods

HostIdle(f) ==
    /\ f \in HostFibres
    /\ fib[f].pc = "idle"

StartCall(f, c) ==
    fib' = [fib EXCEPT ![f] = [IdleFibre EXCEPT !.pc = "acquire", !.call = c]]

Done(fr, kind, val) ==
    [fr EXCEPT !.pc = "done", !.cnt = 0, !.out = [kind |-> kind, val |-> val]]

\* Fibre 1 calls cmd_go_idle, cmd_send_relative_addr, cmd_send_if_cond,
\* cmd_send_op_cond or cmd_select_card.
CallSimple(f) ==
    /\ HostIdle(f) /\ f = 1
    /\ \E m \in SimpleMethods: StartCall(f, [NoCall EXCEPT !.m = m])
    /\ UNCHANGED <<leaseVars, data_write_aborted, data_read_aborted,
                   read_wait_asserted, spi_mode, xs, abort_set_at>>
    /\ UNCHANGED extVars

\* Fibre 1 calls cmd_io_rw_direct (read_reg, write_reg).
CallDirect(f) ==
    /\ HostIdle(f) /\ f = 1
    /\ \E rw \in {0, 1}, tp \in BOOLEAN, d \in RegVals:
         /\ rw = 0 => d = 0
         /\ StartCall(f, [NoCall EXCEPT !.m = "cmd_io_rw_direct", !.rw = rw,
                                        !.tp = tp, !.data = d])
    /\ UNCHANGED <<leaseVars, data_write_aborted, data_read_aborted,
                   read_wait_asserted, spi_mode, xs, abort_set_at>>
    /\ UNCHANGED extVars

\* Fibre 2 calls send_abort(fn) while a cmd_io_rw_extended call of fibre 1 is
\* in progress: first reg = read_reg(fn=0, addr=6).
CallSendAbort(f) ==
    /\ HostIdle(f) /\ f = 2
    /\ fib[1].call.m = "cmd_io_rw_extended" /\ fib[1].pc \notin {"idle", "done"}
    /\ StartCall(f, [NoCall EXCEPT !.m = "send_abort", !.fn = 1, !.stage = 1])
    /\ UNCHANGED <<leaseVars, data_write_aborted, data_read_aborted,
                   read_wait_asserted, spi_mode, xs, abort_set_at>>
    /\ UNCHANGED extVars

\* The arguments of cmd_io_rw_extended that the code reads, for a write and
\* for a read (blocksize is given when block = 1).
XferArgs(rw) ==
    {x \in {[NoXfer EXCEPT !.block = b, !.count = c, !.blocksize = bs,
                           !.could_abort = ca, !.read_wait = w]:
                b \in {0, 1}, c \in 0..MaxCount, bs \in 0..MaxBlockSize,
                ca \in BOOLEAN, w \in 0..MaxReadWait}:
        /\ (x.block = 1 /\ rw = 0) <=> x.blocksize > 0
        /\ rw = 1 => (x.could_abort /\ x.read_wait = 0)}

\* Fibre 1 calls cmd_io_rw_extended.
CallExtended(f) ==
    /\ HostIdle(f) /\ f = 1
    /\ \E rw \in {0, 1}:
         /\ StartCall(f, [NoCall EXCEPT !.m = "cmd_io_rw_extended", !.rw = rw])
         /\ \E x \in XferArgs(rw): xs' = x
    /\ UNCHANGED <<leaseVars, data_write_aborted, data_read_aborted,
                   read_wait_asserted, spi_mode, abort_set_at>>
    /\ UNCHANGED extVars

\* yield self.phy.acquire_cmd_lock(): granted at once, or the fibre blocks.
AcquireStep(f) ==
    /\ f \in HostFibres
    /\ fib[f].pc = "acquire"
    /\ acquire_cmd_lock(f)
    /\ fib' = [fib EXCEPT ![f].pc = IF cmd_bus_busy THEN "acquire" ELSE "send",
                          ![f].acq_at = IF fib[1].pc \in DataPcs THEN "data" ELSE "other"]
    /\ UNCHANGED hostVarsButFib
    /\ UNCHANGED extVars

\* The fibre blocked in acquire_cmd_lock is resumed and takes the lease.
ResumeStep(f) ==
    /\ f \in HostFibres
    /\ fib[f].pc = "acquire"
    /\ acquire_cmd_lock_resume(f)
    /\ fib' = [fib EXCEPT ![f].pc = "send"]
    /\ UNCHANGED hostVarsButFib
    /\ UNCHANGED extVars

\* A variant of the release that leaves the lease with the fibre: it shows
\* that C14 depends on the release before "timeout" is returned.
MethodKeep(f) == UNCHANGED leaseVars

\* The release of the lease in a command method, after the response.
MethodRelease(f) == release_cmd_lock(f)

\* The fibre's record once its lease request is over (history: "data_done"
\* when the request was made and ended within one data phase of fibre 1).
Released(fr) ==
    [fr EXCEPT !.acq_at = IF @ = "data" /\ fib[1].pc \in DataPcs
                            THEN "data_done" ELSE "none"]

\* yield self.phy.send_cmd(cmd), to the next suspension: in native mode
\* cmd_go_idle awaits no response and releases the lease at once.
SendCmd(f) ==
    /\ f \in HostFibres
    /\ fib[f].pc = "send"
    /\ IF ~spi_mode /\ fib[f].call.m = "cmd_go_idle"
         THEN /\ MethodRelease(f)
              /\ fib' = [fib EXCEPT ![f] = Done(Released(@), "return", 0)]
         ELSE /\ fib' = [fib EXCEPT ![f].pc = "resp"]
              /\ UNCHANGED leaseVars
    /\ UNCHANGED hostVarsButFib
    /\ UNCHANGED extVars

\* get_cmd_response_bits sees no start bit within timeout edges: "timeout" is
\* returned through get_cmd_response and cmd_io_rw_direct (which releases the
\* lease) when timeout_possible, TestFailure is raised otherwise.
ResponseTimeout(f) ==
    /\ f \in HostFibres
    /\ fib[f].pc = "resp"
    /\ IF fib[f].call.tp
         THEN /\ MethodRelease(f)
              /\ fib' = [fib EXCEPT ![f] = Done(Released(@), "timeout", 0)]
         ELSE /\ fib' = [fib EXCEPT ![f] = Done(@, "TestFailure", 0)]
              /\ UNCHANGED leaseVars
    /\ UNCHANGED hostVarsButFib
    /\ UNCHANGED extVars

\* A response is received and get_cmd_response rejects it: the error is raised
\* out of get_cmd_response and out of the command method that awaits it, after
\* the quiet period where the code has one.
ResponseRejected(f) ==
    /\ f \in HostFibres
    /\ fib[f].pc = "resp"
    /\ \E e \in {get_cmd_response_check(spi_mode, CmdOf(fib[f].call.m), r):
                    r \in Responses(spi_mode, CmdOf(fib[f].call.m))}:
             /\ e.kind # "ok"
             /\ fib' = [fib EXCEPT ![f] =
                          IF e.quiet
                            THEN [@ EXCEPT !.pc = "quiet", !.cnt = QuietEdges,
                                           !.err = e.kind]
                            ELSE Done(@, e.kind, 0)]
    /\ UNCHANGED <<leaseVars, hostVarsButFib>>
    /\ UNCHANGED extVars

\* The responses get_cmd_response returns to its caller.
Accepted(spi, cmd_num) ==
    {r \in Responses(spi, cmd_num): get_cmd_response_check(spi, cmd_num, r).kind = "ok"}

\* reg &= ~0x7; reg |= (fn & 0x7)
AbortValue(reg, fn) == (reg \div 8) * 8 + (fn % 8)

\* A response is received and get_cmd_response returns it to a command method
\* other than cmd_io_rw_extended: the method releases the lease, then
\* (CMD52) checks the R5 flags and returns the data byte.  send_abort goes on
\* with write_reg(fn=0, addr=6, data=reg).
ResponseAccepted(f) ==
    /\ f \in HostFibres
    /\ fib[f].pc = "resp"
    /\ fib[f].call.m # "cmd_io_rw_extended"
    /\ \E r \in Accepted(spi_mode, CmdOf(fib[f].call.m)):
         LET c == fib[f].call
             e == r5_flags_check(spi_mode, r)
             fr == Released(fib[f])
         IN  /\ fib' = [fib EXCEPT ![f] =
                   IF c.m \in SimpleMethods THEN Done(fr, "return", 0)
                   ELSE IF e.kind # "ok"
                     THEN [fr EXCEPT !.pc = "quiet", !.cnt = QuietEdges, !.err = e.kind]
                   ELSE IF c.m = "send_abort" /\ c.stage = 1
                     THEN [fr EXCEPT !.pc = "acquire",
                                     !.call = [c EXCEPT !.rw = 1, !.stage = 2,
                                                        !.data = AbortValue(r.data, c.fn)]]
                   ELSE Done(fr, "return", r.data)]
    /\ MethodRelease(f)
    /\ UNCHANGED hostVarsButFib
    /\ UNCHANGED extVars

\* One falling edge of the quiet period; the error is raised after the last.
Quiet(f) ==
    /\ f \in HostFibres
    /\ fib[f].pc = "quiet"
    /\ fib' = [fib EXCEPT ![f] = IF @.cnt > 1 THEN [@ EXCEPT !.cnt = @ - 1]
                                 ELSE Done(@, @.err, 0)]
    /\ UNCHANGED <<leaseVars, hostVarsButFib>>
    /\ UNCHANGED extVars


\* ------------------------------------------- Spec: the data phase of CMD53

\* The state fibre 1 is left in by a run of cmd_io_rw_extended's data phase: its
\* pc and edge counter, the call's locals, the two PHY attributes the read path
\* writes, and the outcome when the call ended there ("none" otherwise).
St(pc, cnt, x, flag, rwa, out) ==
    [pc |-> pc, cnt |-> cnt, xs |-> x, flag |-> flag, rwa |-> rwa, out |-> out]

ApplySt(st) ==
    /\ fib' = [fib EXCEPT ![1] =
                 IF st.out = "none" THEN [@ EXCEPT !.pc = st.pc, !.cnt = st.cnt]
                 ELSE Done(@, st.out, 0)]
    /\ xs' = st.xs
    /\ data_read_aborted' = st.flag
    /\ read_wait_asserted' = st.rwa

Invocation(op, x) ==
    [op |-> op, bytes |-> IF op = "read" THEN bytes_to_read(x) ELSE 0,
     whole |-> (op = "write" /\ x.block = 0), index |-> x.blockcount,
     final |-> final_block(x)]

\* data, status = yield self.phy.data_bus_read(bytes_to_read, ...): the call.
BeginReadSt(x, flag) ==
    St("rstart", 0,
       [x EXCEPT !.data = <<>>, !.log = Append(x.log, Invocation("read", x))],
       flag, FALSE, "none")

\* The end of an iteration of the read loop: the next block, or
\* raise ReturnValue(blockdata) / raise ReturnValue(data) after the last.
LoopNextSt(x, flag) ==
    IF x.blockcount + 1 < blocks(x)
      THEN BeginReadSt([x EXCEPT !.blockcount = @ + 1], flag)
      ELSE St("done", 0,
              [x EXCEPT !.path = "normal",
                        !.result = IF x.block = 1
                                     THEN [shape |-> "blocks", val |-> x.blockdata]
                                     ELSE [shape |-> "bytes", val |-> x.data]],
              flag, FALSE, "return")

\* if read_wait: self.phy.read_wait(True); ...  The SPI driver has no
\* read_wait method.
AfterGapSt(x, flag) ==
    IF x.read_wait > 0
      THEN IF spi_mode
             THEN St("done", 0, [x EXCEPT !.path = "raised"], flag, FALSE, "AttributeError")
             ELSE St("rwait", x.read_wait, x, flag, TRUE, "none")
      ELSE LoopNextSt(x, flag)

GapEdges == IF spi_mode THEN GapEdgesSpi ELSE GapEdgesNative

\* The host code that follows the return of data_bus_read with (x.data, status):
\*     if status == "aborted" or self.phy.data_read_aborted:
\*         self.phy.data_read_aborted = False; raise ReturnValue(data)
\*     if block: blockdata.append(data); wait before the next block
ReadEndsSt(x, status, flag) ==
    IF status = "aborted" \/ flag
      THEN St("done", 0,
              [x EXCEPT !.path = "aborted",
                        !.result = [shape |-> "bytes", val |-> x.data]],
              FALSE, FALSE, "return")
      ELSE IF x.block = 1
        THEN St("rgap", GapEdges, [x EXCEPT !.blockdata = Append(@, x.data)],
                flag, FALSE, "none")
        ELSE AfterGapSt(x, flag)

RaiseSt(x, kind, flag) ==
    St("done", 0, [x EXCEPT !.path = "raised"], flag, FALSE, kind)

\* A variant of the release that leaves the lease with the fibre: it shows
\* that C7 depends on the release before the data phase.
ExtendedKeep(f) == UNCHANGED leaseVars

\* The release of the lease in cmd_io_rw_extended, after the response.
ExtendedRelease(f) == release_cmd_lock(f)

\* A response is received and get_cmd_response returns it to
\* cmd_io_rw_extended: the lease is released, the R5 flags are checked and the
\* data phase begins (or the call returns, when blocks = 0).
ResponseAcceptedExtended(f) ==
    /\ f = 1
    /\ fib[f].pc = "resp"
    /\ fib[f].call.m = "cmd_io_rw_extended"
    /\ ExtendedRelease(f)
    /\ UNCHANGED <<data_write_aborted, spi_mode, abort_set_at>>
    /\ \E r \in Accepted(spi_mode, 53):
         LET e == r5_flags_check(spi_mode, r)
             fr == [Released(fib[f]) EXCEPT !.resp = r]
         IN  /\ IF e.kind # "ok"
                  THEN /\ fib' = [fib EXCEPT ![f] = [fr EXCEPT !.pc = "quiet",
                                                     !.cnt = QuietEdges, !.err = e.kind]]
                       /\ UNCHANGED <<xs, data_read_aborted, read_wait_asserted>>
                ELSE IF fib[f].call.rw = 1
                  THEN /\ IF blocks(xs) = 0
                            THEN /\ fib' = [fib EXCEPT ![f] = Done(fr, "return", 0)]
                                 /\ xs' = [xs EXCEPT !.path = "normal",
                                                     !.result = [shape |-> "zero", val |-> <<>>]]
                            ELSE /\ fib' = [fib EXCEPT ![f] = [fr EXCEPT !.pc = "wpad"]]
                                 /\ xs' = xs
                       /\ UNCHANGED <<data_read_aborted, read_wait_asserted>>
                ELSE LET st == IF blocks(xs) = 0
                                 THEN St("done", 0,
                                         [xs EXCEPT !.path = "normal",
                                                    !.result = [shape |-> "blocks",
                                                                val |-> xs.blockdata]],
                                         data_read_aborted, FALSE, "return")
                                 ELSE BeginReadSt(xs, data_read_aborted)
                     IN  /\ fib' = [fib EXCEPT ![f] =
                                      IF st.out = "none" THEN [fr EXCEPT !.pc = st.pc]
                                      ELSE Done(fr, st.out, 0)]
                         /\ xs' = st.xs
                         /\ data_read_aborted' = st.flag
                         /\ read_wait_asserted' = st.rwa
    /\ UNCHANGED extVars

InPhase(p) == fib[1].pc = p /\ fib[1].call.m = "cmd_io_rw_extended"

\* A variant of WritePad that returns on the abort flag without clearing it:
\* it shows that C33 depends on the flag being cleared by the write.
WritePad_keeps_flag ==
    /\ InPhase("wpad")
    /\ IF xs.block = 1 /\ data_write_aborted
         THEN /\ xs' = [xs EXCEPT !.path = "aborted",
                                  !.result = [shape |-> "zero", val |-> <<>>]]
              /\ fib' = [fib EXCEPT ![1] = Done(@, "return", 0)]
         ELSE /\ xs' = [xs EXCEPT !.log = Append(@, Invocation("write", xs))]
              /\ fib' = [fib EXCEPT ![1].pc = "wdata"]
    /\ UNCHANGED <<leaseVars, data_write_aborted, data_read_aborted, read_wait_asserted,
                   spi_mode, abort_set_at>>
    /\ UNCHANGED extVars

\* The random padding before a block of a write is over (its length, 8 to 32
\* rising edges, changes nothing); in block mode the abort flag is looked at;
\* then data_bus_write is called.
WritePad ==
    /\ InPhase("wpad")
    /\ IF xs.block = 1 /\ data_write_aborted
         THEN /\ data_write_aborted' = FALSE
              /\ xs' = [xs EXCEPT !.path = "aborted",
                                  !.result = [shape |-> "zero", val |-> <<>>]]
              /\ fib' = [fib EXCEPT ![1] = Done(@, "return", 0)]
         ELSE /\ xs' = [xs EXCEPT !.log = Append(@, Invocation("write", xs))]
              /\ fib' = [fib EXCEPT ![1].pc = "wdata"]
              /\ UNCHANGED data_write_aborted
    /\ UNCHANGED <<leaseVars, data_read_aborted, read_wait_asserted, spi_mode, abort_set_at>>
    /\ UNCHANGED extVars

\* A variant of WriteData that raises when the CRC status is not 0b010: it
\* shows that C40 depends on the status being ignored.
WriteData_checks_status ==
    /\ InPhase("wdata")
    /\ \E crc_resp \in CrcRespVals:
         IF crc_resp # 2
           THEN /\ xs' = [xs EXCEPT !.crc_resp = crc_resp, !.path = "raised"]
                /\ fib' = [fib EXCEPT ![1] = Done(@, "raise", 0)]
         ELSE IF xs.blockcount + 1 < blocks(xs)
           THEN /\ xs' = [xs EXCEPT !.crc_resp = crc_resp, !.blockcount = @ + 1]
                /\ fib' = [fib EXCEPT ![1].pc = "wpad"]
           ELSE /\ xs' = [xs EXCEPT !.crc_resp = crc_resp, !.path = "normal",
                                    !.result = [shape |-> "zero", val |-> <<>>]]
                /\ fib' = [fib EXCEPT ![1] = Done(@, "return", 0)]
    /\ UNCHANGED <<leaseVars, data_write_aborted, data_read_aborted,
                   read_wait_asserted, spi_mode, abort_set_at>>
    /\ UNCHANGED extVars

\* data_bus_write returns the CRC status the device gave; the host keeps it in
\* crc_resp and does not look at it.
WriteData ==
    /\ InPhase("wdata")
    /\ \E crc_resp \in CrcRespVals:
         IF xs.blockcount + 1 < blocks(xs)
           THEN /\ xs' = [xs EXCEPT !.crc_resp = crc_resp, !.blockcount = @ + 1]
                /\ fib' = [fib EXCEPT ![1].pc = "wpad"]
           ELSE /\ xs' = [xs EXCEPT !.crc_resp = crc_resp, !.path = "normal",
                                    !.result = [shape |-> "zero", val |-> <<>>]]
                /\ fib' = [fib EXCEPT ![1] = Done(@, "return", 0)]
    /\ UNCHANGED <<leaseVars, data_write_aborted, data_read_aborted,
                   read_wait_asserted, spi_mode, abort_set_at>>
    /\ UNCHANGED extVars

ReadFrame == UNCHANGED <<leaseVars, data_write_aborted, spi_mode, abort_set_at, extVars>>

\* data_bus_read: D0 is sampled 0, the start bit.
ReadStartBit ==
    /\ InPhase("rstart")
    /\ ApplySt(St(IF bytes_to_read(xs) = 0 THEN "rcrc" ELSE "rbyte", 0,
                  xs, data_read_aborted, FALSE, "none"))
    /\ ReadFrame

\* data_bus_read: no start bit within the window.
ReadStartTimeout ==
    /\ InPhase("rstart")
    /\ ApplySt(IF xs.could_abort
                 THEN ReadEndsSt(xs, "aborted", data_read_aborted)
                 ELSE RaiseSt(xs, "SDIODataError", data_read_aborted))
    /\ ReadFrame

\* data_bus_read: one byte is shifted in and appended, then the abort flag is
\* polled.
ReadByte ==
    /\ InPhase("rbyte")
    /\ LET x == [xs EXCEPT !.data = Append(@, DeviceByte(xs.blockcount, Len(xs.data)))]
       IN  ApplySt(IF x.could_abort /\ data_read_aborted
                     THEN ReadEndsSt(x, "aborted", data_read_aborted)
                   ELSE IF Len(x.data) = bytes_to_read(x)
                     THEN St("rcrc", 0, x, data_read_aborted, FALSE, "none")
                   ELSE St("rbyte", 0, x, data_read_aborted, FALSE, "none"))
    /\ ReadFrame

\* data_bus_read: one CRC bit is sampled, then the abort flag is polled; after
\* the last bit the received CRC16s are compared with the computed ones (the
\* device decides whether they match).  The bits are not counted: whether
\* this one was the last is left open, which covers the sixteen of the code.
ReadCrcBit ==
    /\ InPhase("rcrc")
    /\ \E last \in BOOLEAN, crc_pass \in BOOLEAN:
         ApplySt(IF xs.could_abort /\ data_read_aborted
                   THEN ReadEndsSt(xs, "aborted", data_read_aborted)
                 ELSE IF ~last
                   THEN St("rcrc", 0, xs, data_read_aborted, FALSE, "none")
                 ELSE IF crc_pass
                   THEN IF spi_mode /\ final_block(xs)
                          THEN St("rcs", 0, xs, data_read_aborted, FALSE, "none")
                          ELSE ReadEndsSt(xs, "okay", data_read_aborted)
                 ELSE IF ~data_read_aborted
                   THEN RaiseSt(xs, "SDIODataError", data_read_aborted)
                 ELSE ReadEndsSt(xs, "aborted", data_read_aborted))
    /\ ReadFrame

\* SPI data_bus_read, final block: chip select is released and eight more
\* edges pass before (data, "okay") is returned.
ReadCsRelease ==
    /\ InPhase("rcs")
    /\ ApplySt(ReadEndsSt(xs, "okay", data_read_aborted))
    /\ ReadFrame

\* One edge of the wait between two blocks of a read.
ReadGap ==
    /\ InPhase("rgap")
    /\ ApplySt(IF fib[1].cnt > 1
                 THEN St("rgap", fib[1].cnt - 1, xs, data_read_aborted, FALSE, "none")
                 ELSE AfterGapSt(xs, data_read_aborted))
    /\ ReadFrame

\* One falling edge of the read-wait period; read_wait(False) after the last.
ReadWait ==
    /\ InPhase("rwait")
    /\ ApplySt(IF fib[1].cnt > 1
                 THEN St("rwait", fib[1].cnt - 1, xs, data_read_aborted, TRUE, "none")
                 ELSE LoopNextSt(xs, data_read_aborted))
    /\ ReadFrame

\* Another fibre of the test bench raises the abort flag of the PHY for the
\* direction of the cmd_io_rw_extended call in progress.
InExtended(rw) ==
    /\ fib[1].call.m = "cmd_io_rw_extended"
    /\ fib[1].call.rw = rw
    /\ fib[1].pc \notin {"idle", "done"}

HarnessAbortRead ==
    /\ InExtended(0)
    /\ ~data_read_aborted
    /\ data_read_aborted' = TRUE
    /\ abort_set_at' = IF fib[1].pc \in DataPcs THEN "data" ELSE "cmd"
    /\ UNCHANGED <<leaseVars, data_write_aborted, read_wait_asserted, spi_mode, fib, xs>>
    /\ UNCHANGED extVars

HarnessAbortWrite ==
    /\ InExtended(1)
    /\ ~data_write_aborted
    /\ data_write_aborted' = TRUE
    /\ UNCHANGED <<leaseVars, data_read_aborted, read_wait_asserted, spi_mode, fib, xs,
                   abort_set_at>>
    /\ UNCHANGED extVars

Init == LeaseInit /\ HostInit /\ ExtInit

Next ==
    \/ \E f \in HostFibres:
         \/ CallSimple(f)
         \/ CallDirect(f)
         \/ CallSendAbort(f)
         \/ CallExtended(f)
         \/ AcquireStep(f)
         \/ ResumeStep(f)
         \/ SendCmd(f)
         \/ ResponseTimeout(f)
         \/ ResponseRejected(f)
         \/ ResponseAccepted(f)
         \/ ResponseAcceptedExtended(f)
         \/ Quiet(f)
    \/ WritePad
    \/ WriteData
    \/ ReadStartBit
    \/ ReadStartTimeout
    \/ ReadByte
    \/ ReadCrcBit
    \/ ReadCsRelease
    \/ ReadGap
    \/ ReadWait
    \/ HarnessAbortRead
    \/ HarnessAbortWrite

Spec == Init /\ [][Next]_vars

\* ------------------------------------------------------ properties of Spec

Terminated(f) == fib[f].pc = "done"

Returned(f, m) ==
    /\ Terminated(f)
    /\ fib[f].call.m = m
    /\ fib[f].out.kind = "return"

ReadReturned == Returned(1, "cmd_io_rw_extended") /\ fib[1].call.rw = 0

\* C3: whenever a command method has terminated (by returning a value, by
\* returning "timeout", or by raising), the fibre that ran it does not hold the
\* lease.
C3_LeaseFreeOnTermination ==
    \A f \in HostFibres: Terminated(f) => lock[f] # "held"

\* C4: when send_abort has returned and the transfer of the other fibre is
\* still running (so nothing has cleared them), the PHY flags
\* data_write_aborted and data_read_aborted are set.
C4_SendAbortSetsFlags ==
    Returned(2, "send_abort") /\ ~Terminated(1)
        => data_write_aborted /\ data_read_aborted

\* What the call returned compared with a list of blocks, as Python compares
\* lists: a list of bytes equals a list of blocks only when both are empty.
ResultIsBlocks(bd) ==
    IF xs.result.val = <<>> THEN bd = <<>>
    ELSE xs.result.shape = "blocks" /\ xs.result.val = bd

\* C5: a block-mode read of N blocks that another fibre aborted after K < N
\* complete blocks (here 1 <= K) returns exactly those K blocks.
C5_AbortReturnsCompleteBlocks ==
    (/\ ReadReturned
     /\ xs.block = 1 /\ xs.count > 0
     /\ abort_set_at # "none"
     /\ xs.path = "aborted"
     /\ 1 <= Len(xs.blockdata) /\ Len(xs.blockdata) < xs.count)
        => ResultIsBlocks(xs.blockdata)

\* C6: whenever a cmd_io_rw_extended read (of at least one block or byte) has
\* returned, data_read_aborted is false, wherever in the data phase another
\* fibre set it.
C6_FlagClearedOnReturn ==
    ReadReturned /\ xs.count > 0 /\ abort_set_at = "data" => ~data_read_aborted

\* C7: during the data phase of a cmd_io_rw_extended call the calling fibre
\* does not hold the lease, and a second fibre that calls acquire_cmd_lock for
\* a CMD52 during the data phase is granted the lease without waiting (it is
\* never blocked in, or woken from, the wait of acquire_cmd_lock).
C7_DataPhaseLeaseFree ==
    /\ fib[1].pc \in DataPcs => lock[1] = "none"
    /\ fib[2].acq_at = "data" => lock[2] = "held"

\* C7 happens: the second fibre asked for the lease during the data phase,
\* made its CMD52 exchange and released the lease, and the data phase is still
\* in progress.
C7_Witness ==
    /\ fib[1].pc \in DataPcs
    /\ fib[2].acq_at = "data_done"
    /\ lock[2] = "none"

\* C8: a cmd_io_rw_extended call with block=1 and count=0 returns only after
\* an abort was observed, having invoked the data phase.
C8_OpenEndedUntilAbort ==
    Returned(1, "cmd_io_rw_extended") /\ xs.block = 1 /\ xs.count = 0
        => xs.path = "aborted" /\ Len(xs.log) >= 1

\* C9: a cmd_io_rw_extended read with block=0 and count=0 that returns normally
\* has invoked the data phase once for 512 bytes and returns 512 bytes.
C9_ByteModeZeroReads512 ==
    ReadReturned /\ xs.block = 0 /\ xs.count = 0 /\ xs.path = "normal"
        => /\ Len(xs.log) = 1
           /\ xs.log[1].bytes = ByteModeDefault
           /\ Len(xs.result.val) = ByteModeDefault

\* The i-th invocation of the data phase is the one the contract asks for.
ExpectedInvocation(i) ==
    LET e == xs.log[i]
    IN  /\ e.op = IF fib[1].call.rw = 1 THEN "write" ELSE "read"
        /\ e.index = i - 1
        /\ e.final = (i = (IF xs.block = 1 THEN xs.count ELSE 1))
        /\ fib[1].call.rw = 0 => e.bytes = (IF xs.block = 1 THEN xs.blocksize ELSE xs.count)
        /\ fib[1].call.rw = 1 => e.whole = (xs.block = 0)

LeaseAcquire(f) == acquire_cmd_lock(f) /\ UNCHANGED <<hostVars, extVars>>

LeaseResume(f) == acquire_cmd_lock_resume(f) /\ UNCHANGED <<hostVars, extVars>>

LeaseRelease(f) == release_cmd_lock(f) /\ UNCHANGED <<hostVars, extVars>>

NextLease ==
    \E f \in Fibres:
        \/ LeaseAcquire(f)
        \/ LeaseResume(f)
        \/ LeaseRelease(f)

InitLease == LeaseInit /\ HostInit /\ ExtInit /\ spi_mode = FALSE

SpecLease == InitLease /\ [][NextLease]_vars

Holders == {f \in Fibres: lock[f] = "held"}

\* C1: at most one fibre is between a completed acquire_cmd_lock and its
\* matching release_cmd_lock.
C1_MutualExclusion == Cardinality(Holders) <= 1

\* C2: the lease is granted in the order of the acquire_cmd_lock calls: a fibre
\* that holds the lease is the one whose outstanding call is the oldest, so
\* no fibre performs its exchange before, or together with, one that called
\* earlier.
C2_FifoDispatch == \A f \in Holders: call_order[1] = f

\* ------------------------------------------- frames: 48-bit BinaryValues

\* A BinaryValue(bits=n, bigEndian=False) is a function from the bit numbers
\* 0..n-1 to {0, 1}; v[hi:lo] is the slice of the bits lo..hi.
Zeros(n) == [i \in 0..(n - 1) |-> 0]

\* v[hi:lo] = val
SetField(v, hi, lo, val) ==
    [i \in DOMAIN v |-> IF lo <= i /\ i <= hi THEN Bit(val, i - lo) ELSE v[i]]

RECURSIVE FieldSum(_, _, _)
FieldSum(v, hi, lo) ==
    IF hi < lo THEN 0 ELSE 2 * FieldSum(v, hi, lo + 1) + v[lo]

\* v[hi:lo].integer, for slices of fewer than 31 bits
Field(v, hi, lo) == FieldSum(v, hi, lo)

\* v[hi:lo] as a BinaryValue of its own
Slice(v, hi, lo) == [i \in 0..(hi - lo) |-> v[i + lo]]

\* sdio_utils.crc7_gen, one pass of the inner loop:
\*     regval = regval << 1
\*     if ((byte_val ^ regval) & 0x80) > 0: regval = regval ^ 9
\*     byte_val = (byte_val << 1) & 0xFF
RECURSIVE crc7_byte(_, _, _)
crc7_byte(regval, byte_val, bit_index) ==
    IF bit_index = 8 THEN regval % 128
    ELSE LET shifted == regval * 2
             fed == IF Bit(byte_val, 7) # Bit(shifted, 7)
                      THEN shifted + 1 + (IF Bit(shifted, 3) = 1 THEN -8 ELSE 8)
                      ELSE shifted
         IN  CHOOSE out \in {crc7_byte(r, b, bit_index + 1):
                                 r \in {fed}, b \in {(byte_val * 2) % 256}}: TRUE

\* sdio_utils.crc7_gen(number, bit_count): number is given by its bits;
\* for i in range(bit_count, 0, -8): byte_val = (number >> (i - 8)) & 0xFF
RECURSIVE crc7_loop(_, _, _)
crc7_loop(number, i, regval) ==
    IF i <= 0 THEN regval
    ELSE CHOOSE out \in {crc7_loop(number, i - 8, r):
                            r \in {crc7_byte(regval, Field(number, i - 1, i - 8), 0)}}: TRUE

\* A variant of crc7_gen that leaves out the first byte: it shows that C16
\* depends on the CRC7 covering the whole header.
crc7_gen_short(number, bit_count) == crc7_loop(number, bit_count - 8, 0)

crc7_gen(number, bit_count) == crc7_loop(number, bit_count, 0)

\* The CRC7 of the SD specification (x^7 + x^3 + 1, zero initial value) of the
\* bits hi..lo of v, most significant first, as a shift register.
RECURSIVE Crc7Ref(_, _, _, _)
Crc7Ref(v, hi, lo, crc) ==
    IF hi < lo THEN crc
    ELSE LET inv == (v[hi] # Bit(crc, 6))
             sh == (crc * 2) % 128
             nx == IF inv THEN sh + 1 + (IF Bit(sh, 3) = 1 THEN -8 ELSE 8) ELSE sh
         IN  CHOOSE out \in {Crc7Ref(v, hi - 1, lo, r): r \in {nx}}: TRUE

\* ------------------------------------------- SpecFn: the functions, one by one

ResponseType(spi, cmd_num) ==
    IF spi THEN get_spi_response_type(cmd_num)[1] ELSE get_response_type(cmd_num)[1]

\* The fields get_cmd_response and the CMD52/CMD53 methods read in a native
\* 48-bit response: CRC7 against crc7_gen of bits [47:8], bits [45:40], the
\* card status [39:8] (its bits 31, 23, 22, 19 and CURRENT_STATE [12:9]), the
\* R5 flags [23:16] and the data byte [15:8].
Decode(response) ==
    [valid |-> TRUE,
     crc_ok |-> (crc7_gen(Slice(response, 47, 8), 40) = Field(response, 7, 1)),
     cmd_field |-> Field(response, 45, 40),
     status_bits |-> {b \in {31, 23, 22, 19}: response[b + 8] = 1},
     state |-> Field(response, 20, 17),
     flags |-> Field(response, 23, 16),
     data |-> Field(response, 15, 8),
     r1 |-> 0]

RECURSIVE SetBits(_, _)
SetBits(v, bs) ==
    IF bs = {} THEN v
    ELSE LET b == CHOOSE x \in bs: TRUE
         IN  SetBits([v EXCEPT ![b] = 1], bs \ {b})

\* The 48-bit response a device sends that carries the fields of r: start bit 0,
\* direction 0, stop bit 1, and a CRC7 field that is right or off by one.
Encode(r, type) ==
    LET h0 == SetField(Zeros(48), 45, 40, r.cmd_field)
        h1 == IF type \in {"R1", "R1b"}
                THEN SetField(SetBits(h0, {b + 8: b \in r.status_bits}), 20, 17, r.state)
              ELSE IF type = "R5"
                THEN SetField(SetField(h0, 23, 16, r.flags), 15, 8, r.data)
              ELSE h0
        crc == crc7_gen(Slice(h1, 47, 8), 40)
        h2 == SetField(h1, 7, 1, IF r.crc_ok THEN crc ELSE (crc + 1) % 128)
    IN  [h2 EXCEPT ![0] = 1]

\* The commands of the host's command methods that are answered in native mode.
AnsweredCmds == {3, 5, 7, 8, 52, 53}

\* The responses tried for a command: those of Responses, every value of the R5
\* flags, and every combination of the fatal R1 bits with every CURRENT_STATE.
ResponseFrames(cmd_num) ==
    LET type == ResponseType(FALSE, cmd_num)
        good == [NoResp EXCEPT !.valid = TRUE, !.cmd_field = cmd_num]
    IN  {Encode(r, type): r \in Responses(FALSE, cmd_num)}
        \cup (IF type = "R5"
                THEN {Encode([good EXCEPT !.flags = fl], type): fl \in 0..255}
                ELSE {})
        \cup (IF type \in {"R1", "R1b"}
                THEN {Encode([good EXCEPT !.status_bits = sb, !.state = st], type):
                         sb \in SUBSET {31, 23, 22, 19}, st \in 0..15}
                ELSE {})

\* What a command method makes of a response: the checks of get_cmd_response,
\* then (CMD52, CMD53) the checks of the R5 flags.
command_outcome(spi, cmd_num, r) ==
    LET e == get_cmd_response_check(spi, cmd_num, r)
    IN  IF e.kind # "ok" THEN e
        ELSE IF cmd_num \in {52, 53} THEN r5_flags_check(spi, r)
        ELSE NoErr

\* cmd_io_rw_direct: response_data = response[7:0] in SPI mode, response[15:8]
\* in native mode.
direct_return(spi, response) ==
    IF spi THEN Field(response, 7, 0) ELSE Field(response, 15, 8)

FxResponse ==
    UNION {{[f |-> "get_cmd_response", cmd_num |-> c, response |-> rsp,
             done |-> FALSE, checked |-> NoErr, outcome |-> NoErr, value |-> -1]:
               rsp \in ResponseFrames(c)}: c \in AnsweredCmds}

\* The command numbers of a 6-bit command index.
CmdNums == 0..63

FxResponseType ==
    {[f |-> "get_response_type", cmd_num |-> c, done |-> FALSE, rv |-> <<"none", 0>>]:
        c \in CmdNums}

\* sdio_utils.init_cmd: start bit 0, direction 1, the command index, stop bit 1.
init_cmd(cmd_num) ==
    [SetField(Zeros(48), 45, 40, cmd_num) EXCEPT ![47] = 0, ![46] = 1, ![0] = 1]

\* The arguments of the command methods (those a method does not take are 0;
\* data is -1 when it is not given, None in the code).
NoArgs == [rw |-> 0, fn |-> 0, raw |-> 0, block |-> 0, op |-> 0, addr |-> 0,
           count |-> 0, data |-> -1, rca |-> 0, pattern |-> 0]

AddrVals == {0, 6, 65537, 131071}
DataVals == {-1, 0, 90, 255}
CountVals == {0, 1, 511}
RcaVals == {0, 1, 43690, 65535}
PatternVals == {0, 170, 255}
FnVals == {0, 1, 7}

\* A variant of io_rw_direct_frame that writes the data byte whatever rw is: it
\* shows that C17 depends on the data byte being left out of a read.
io_rw_direct_frame_data(cmd, a) ==
    SetField(SetField(SetField([cmd EXCEPT ![39] = a.rw, ![35] = a.raw],
                               38, 36, a.fn), 33, 17, a.addr),
             15, 8, IF a.data = -1 THEN 0 ELSE a.data)

\* cmd_io_rw_direct: cmd[39] = rw; cmd[38:36] = fn; cmd[35] = raw;
\* cmd[33:17] = addr; if rw: cmd[15:8] = data
io_rw_direct_frame(cmd, a) ==
    LET c == SetField(SetField([cmd EXCEPT ![39] = a.rw, ![35] = a.raw],
                               38, 36, a.fn), 33, 17, a.addr)
    IN  IF a.rw = 1 THEN SetField(c, 15, 8, a.data) ELSE c

\* The frame a command method builds before it asks for the lease.
command_frame(m, a) ==
    LET cmd == init_cmd(CmdOf(m))
    IN  IF m = "cmd_send_if_cond"
          THEN SetField([cmd EXCEPT ![16] = 1], 15, 8, a.pattern)
        ELSE IF m = "cmd_send_op_cond"
          THEN [cmd EXCEPT ![26] = 1, ![27] = 1, ![28] = 1, ![29] = 1, ![30] = 1]
        ELSE IF m = "cmd_select_card"
          THEN SetField(cmd, 39, 24, a.rca)
        ELSE IF m = "cmd_io_rw_direct"
          THEN io_rw_direct_frame(cmd, a)
        ELSE IF m = "cmd_io_rw_extended"
          THEN SetField(SetField(SetField(
                   [cmd EXCEPT ![39] = a.rw, ![35] = a.block, ![34] = a.op],
                   38, 36, a.fn), 33, 17, a.addr), 16, 8, a.count)
        ELSE cmd

\* phy.send_cmd: the CRC7 of cmd[47:8] is written to cmd[7:1] and the 48 bits
\* are shifted out, bit 47 first.
send_cmd(cmd) == SetField(cmd, 7, 1, crc7_gen(Slice(cmd, 47, 8), 40))

\* The calls of the command methods tried (a write is given its data byte).
MethodCalls ==
    {<<m, NoArgs>>: m \in {"cmd_go_idle", "cmd_send_relative_addr", "cmd_send_op_cond"}}
    \cup {<<"cmd_send_if_cond", [NoArgs EXCEPT !.pattern = p]>>: p \in PatternVals}
    \cup {<<"cmd_select_card", [NoArgs EXCEPT !.rca = r]>>: r \in RcaVals}
    \cup {<<"cmd_io_rw_direct", a>>:
             a \in {x \in {[NoArgs EXCEPT !.rw = rw, !.fn = fn, !.raw = raw,
                                          !.addr = addr, !.data = d]:
                              rw \in {0, 1}, fn \in FnVals, raw \in {0, 1},
                              addr \in AddrVals, d \in DataVals}:
                        x.rw = 1 => x.data # -1}}
    \cup {<<"cmd_io_rw_extended", [NoArgs EXCEPT !.rw = rw, !.fn = fn, !.block = b,
                                                !.op = op, !.addr = addr, !.count = c]>>:
             rw \in {0, 1}, fn \in FnVals, b \in {0, 1}, op \in {0, 1},
             addr \in AddrVals, c \in CountVals}

FxSendCmd ==
    {[f |-> "send_cmd", m |-> mc[1], a |-> mc[2], done |-> FALSE, cmd |-> Zeros(48)]:
        mc \in MethodCalls}

\* The locals of parse_cis_tuple_table before its loop.
ParseStart == [link |-> -1, byte_of_tuple |-> 0, return_tuples |-> <<>>,
               current_tuple |-> <<>>, end |-> "none"]

\* A variant of parse_byte that takes every 0xFF byte for the END byte: it
\* shows that C26 depends on the END test looking at byte_of_tuple.
parse_byte_any_end(st, byte) ==
    LET back == st.link = 0 /\ st.byte_of_tuple > 0
        s1 == IF back
                THEN [st EXCEPT !.byte_of_tuple = 0, !.link = -1,
                                !.return_tuples = Append(@, st.current_tuple),
                                !.current_tuple = <<>>]
                ELSE st
        s2 == [s1 EXCEPT !.current_tuple = Append(@, byte)]
        link2 == IF s2.byte_of_tuple = 1 THEN byte + 1 ELSE s2.link
        s3 == [s2 EXCEPT !.byte_of_tuple = @ + 1,
                         !.link = IF link2 # 0 THEN link2 - 1 ELSE link2]
    IN  IF byte = 255 THEN [s2 EXCEPT !.end = "break"]
        ELSE IF s2.byte_of_tuple = 1 /\ byte = 0 THEN [s2 EXCEPT !.end = "SDIODataError"]
        ELSE IF s3.byte_of_tuple > 100 THEN [s3 EXCEPT !.end = "SDIODataError"]
        ELSE s3

\* A variant of parse_byte that refuses the 100th byte of a tuple: it shows
\* that C27 depends on the length test being `> 100`.
parse_byte_short(st, byte) ==
    LET back == st.link = 0 /\ st.byte_of_tuple > 0
        s1 == IF back
                THEN [st EXCEPT !.byte_of_tuple = 0, !.link = -1,
                                !.return_tuples = Append(@, st.current_tuple),
                                !.current_tuple = <<>>]
                ELSE st
        s2 == [s1 EXCEPT !.current_tuple = Append(@, byte)]
        link2 == IF s2.byte_of_tuple = 1 THEN byte + 1 ELSE s2.link
        s3 == [s2 EXCEPT !.byte_of_tuple = @ + 1,
                         !.link = IF link2 # 0 THEN link2 - 1 ELSE link2]
    IN  IF s2.byte_of_tuple = 0 /\ byte = 255 THEN [s2 EXCEPT !.end = "break"]
        ELSE IF s2.byte_of_tuple = 1 /\ byte = 0 THEN [s2 EXCEPT !.end = "SDIODataError"]
        ELSE IF s3.byte_of_tuple >= 100 THEN [s3 EXCEPT !.end = "SDIODataError"]
        ELSE s3

\* parse_cis_tuple_table, one pass of `for byte in self.cis_data[cis_offset:]`;
\* end becomes "break" or "SDIODataError" when the pass leaves the loop.
parse_byte(st, byte) ==
    LET back == st.link = 0 /\ st.byte_of_tuple > 0
        s1 == IF back
                THEN [st EXCEPT !.byte_of_tuple = 0, !.link = -1,
                                !.return_tuples = Append(@, st.current_tuple),
                                !.current_tuple = <<>>]
                ELSE st
        s2 == [s1 EXCEPT !.current_tuple = Append(@, byte)]
        link2 == IF s2.byte_of_tuple = 1 THEN byte + 1 ELSE s2.link
        s3 == [s2 EXCEPT !.byte_of_tuple = @ + 1,
                         !.link = IF link2 # 0 THEN link2 - 1 ELSE link2]
    IN  IF s2.byte_of_tuple = 0 /\ byte = 255 THEN [s2 EXCEPT !.end = "break"]
        ELSE IF s2.byte_of_tuple = 1 /\ byte = 0 THEN [s2 EXCEPT !.end = "SDIODataError"]
        ELSE IF s3.byte_of_tuple > 100 THEN [s3 EXCEPT !.end = "SDIODataError"]
        ELSE s3

RECURSIVE parse_loop(_, _, _)
parse_loop(data, k, st) ==
    IF k > Len(data) \/ st.end # "none" THEN st
    ELSE CHOOSE out \in {parse_loop(data, k + 1, s): s \in {parse_byte(st, data[k])}}: TRUE

\* parse_cis_tuple_table(addr) on cis_data: the tuples returned, or the error
\* raised; cis_offset = addr & 0xff.
parse_cis_tuple_table(cis_data, addr) ==
    LET cis_offset == addr % 256
        st == parse_loop(cis_data, cis_offset + 1, ParseStart)
    IN  IF st.end = "SDIODataError" THEN [err |-> "SDIODataError", tuples |-> <<>>]
        ELSE [err |-> "none", tuples |-> st.return_tuples]

\* The CIS buffers parse_cis_tuple_table is tried on.  Well-formed ones: bytes
\* before the offset, well-formed tuples, the END byte, bytes after it.
Body(n, v) == [i \in 1..n |-> v]
Tuple(code, l, v) == <<code, l>> \o Body(l, v)

RECURSIVE Concat(_)
Concat(tuples) == IF tuples = <<>> THEN <<>> ELSE Head(tuples) \o Concat(Tail(tuples))

TupleLists ==
    {<<>>,
     << <<32, 4, 170, 187, 204, 221>>, <<34, 2, 0, 2>> >>,
     << <<32, 3, 255, 255, 1>>, <<33, 2, 7, 255>> >>,
     << <<0, 1, 9>>, Tuple(21, 98, 255), <<34, 1, 0>> >>,
     << Tuple(21, 98, 1), Tuple(22, 98, 2) >>}

NoParse == [link |-> 0, byte_of_tuple |-> 0, return_tuples |-> <<>>,
            current_tuple |-> <<>>, end |-> "none"]

FxWellFormed ==
    {[f |-> "parse_cis_tuple_table", wellformed |-> TRUE, tuples |-> tuples,
      cis_data |-> before \o Concat(tuples) \o <<255>> \o after,
      addr |-> base + Len(before), k |-> 0, st |-> NoParse, done |-> FALSE]:
        tuples \in TupleLists, before \in {<<>>, <<255, 0, 7>>},
        after \in {<<>>, <<32, 0, 5>>}, base \in {0, 4096}}

\* Other buffers: a link byte 0, tuples of 101 and 257 bytes, tuples cut short
\* by the end of the buffer, no END byte, an empty buffer.
OtherBuffers ==
    {<<>>, <<32>>, <<32, 0>>, <<32, 4, 1, 2>>,
     <<32, 4, 170, 187, 204, 221, 33, 0, 255>>,
     <<32, 1, 0, 255>>,
     Tuple(21, 99, 1) \o <<255>>,
     Tuple(21, 98, 1) \o Tuple(22, 99, 2) \o <<255>>,
     <<21, 99>> \o Body(98, 1),
     <<21, 200>> \o Body(50, 1),
     <<21, 255>> \o Body(120, 3),
     Tuple(21, 98, 1) \o Tuple(22, 98, 2)}

FxOther ==
    {[f |-> "parse_cis_tuple_table", wellformed |-> FALSE, tuples |-> <<>>,
      cis_data |-> data, addr |-> 0, k |-> 0, st |-> NoParse, done |-> FALSE]:
        data \in OtherBuffers}

\* get_cmd_response_bits(cmd, timeout, timeout_possible) of either PHY driver,
\* and the command line it samples: high until the rising edge `start`, then
\* the start bit 0 and the further bits of the response, then high again.
BitsTimeoutVals == {50, 52}
BitsStartVals == {1, 2, 3, 34, 35, 50, 51, 53}
BitsCmdNums == {0, 52}

FxResponseBits ==
    {[f |-> "get_cmd_response_bits", spi |-> spi, cmd_num |-> c, timeout |-> t,
      timeout_possible |-> tp, start |-> s, pattern |-> p,
      pc |-> "call", edges |-> 0, timeout_count |-> 0, response_length |-> 0,
      response_bit_counter |-> 0, response |-> <<>>, done |-> FALSE, outcome |-> "none"]:
        spi \in BOOLEAN, c \in BitsCmdNums, t \in BitsTimeoutVals, tp \in BOOLEAN,
        s \in BitsStartVals, p \in {0, 1}}

\* crc ^ (1 << n)
flip_bit(crc, n) == IF Bit(crc, n) = 1 THEN crc - 2 ^ n ELSE crc + 2 ^ n

\* One round of crc16_gen on the bit `bit` of `byte`.  The source lets crc grow
\* and masks it with 0xffff at the end; no round reads a bit above bit 15, so
\* the bits above are dropped here round by round.
crc16_round(crc, byte, bit) ==
    LET val == (Bit(byte, bit) + Bit(crc, 15)) % 2
        fed == IF val = 1 THEN flip_bit(flip_bit(crc, 4), 11) ELSE crc
    IN  (fed * 2 + val) % 65536

\* sdio_utils.crc16_gen: the loops over the bytes and their bits, most
\* significant first, left when num_bits has come down to 0.
RECURSIVE crc16_loop(_, _, _, _, _)
crc16_loop(data, k, bit, crc, num_bits) ==
    IF k > Len(data) THEN crc % 65536
    ELSE LET next == crc16_round(crc, data[k], bit)
         IN  IF num_bits - 1 = 0 THEN next % 65536
             ELSE CHOOSE out \in {crc16_loop(data, IF bit = 0 THEN k + 1 ELSE k,
                                             IF bit = 0 THEN 7 ELSE bit - 1, c, num_bits - 1):
                                    c \in {next}}: TRUE

crc16_gen(data, num_bits) == crc16_loop(data, 1, 7, 0, num_bits)

\* The CRC16 of the SD specification (x^16 + x^12 + x^5 + 1, zero initial
\* value) of a sequence of bits, as a shift register.
RECURSIVE Crc16Ref(_, _, _)
Crc16Ref(bits, k, crc) ==
    IF k > Len(bits) THEN crc
    ELSE LET inv == (bits[k] # Bit(crc, 15))
             sh == (crc * 2) % 65536
             nx == IF inv THEN flip_bit(flip_bit(flip_bit(sh, 0), 5), 12) ELSE sh
         IN  CHOOSE out \in {Crc16Ref(bits, k + 1, r): r \in {nx}}: TRUE

\* The arguments of crc16_gen tried: up to two bytes and every bit count from
\* 0 to all their bits.
Crc16Bytes == {0, 60, 165, 255}
Crc16Data ==
    {<<>>} \cup {<<a>>: a \in Crc16Bytes} \cup {<<a, b>>: a \in Crc16Bytes, b \in Crc16Bytes}

FxCrc16 ==
    UNION {{[f |-> "crc16_gen", data |-> d, num_bits |-> n, done |-> FALSE, rv |-> 0]:
               n \in 0..(8 * Len(d))}: d \in Crc16Data}

FxInputs ==
    FxResponse \cup FxResponseType \cup FxSendCmd \cup FxResponseBits \cup FxWellFormed
        \cup FxOther \cup FxCrc16

FxRest == UNCHANGED <<leaseVars, hostVars, host, wire, sq, bus_width>>

\* A native command method receives fx.response in answer to CMD fx.cmd_num:
\* what get_cmd_response makes of it, what the method makes of it, and the
\* value cmd_io_rw_direct returns (-1: none).
ApplyGetCmdResponse ==
    /\ fx.f = "get_cmd_response" /\ ~fx.done
    /\ fx' = [fx EXCEPT !.done = TRUE,
                !.checked = get_cmd_response_check(FALSE, fx.cmd_num, Decode(fx.response)),
                !.outcome = command_outcome(FALSE, fx.cmd_num, Decode(fx.response)),
                !.value = IF fx.cmd_num = 52
                             /\ command_outcome(FALSE, fx.cmd_num, Decode(fx.response)) = NoErr
                            THEN direct_return(FALSE, fx.response) ELSE -1]
    /\ FxRest

InitFn ==
    /\ LeaseInit /\ HostInit /\ spi_mode = FALSE
    /\ host = init_state /\ wire = <<>> /\ sq = NoSq /\ bus_width = 1
    /\ fx \in FxInputs

\* sdio_utils.get_response_type(fx.cmd_num) is evaluated.
ApplyGetResponseType ==
    /\ fx.f = "get_response_type" /\ ~fx.done
    /\ fx' = [fx EXCEPT !.done = TRUE, !.rv = get_response_type(fx.cmd_num)]
    /\ FxRest

\* A command method builds its frame and send_cmd puts it on the wire.
ApplySendCmd ==
    /\ fx.f = "send_cmd" /\ ~fx.done
    /\ fx' = [fx EXCEPT !.done = TRUE, !.cmd = send_cmd(command_frame(fx.m, fx.a))]
    /\ FxRest

\* The command line at rising edge e, as fx describes it.
cmd_line(e) ==
    IF e < fx.start \/ e >= fx.start + fx.response_length THEN 1
    ELSE IF e = fx.start THEN 0
    ELSE (e - fx.start + fx.pattern) % 2

\* The code after the loop: the timeout is reported when timeout_count has
\* reached timeout, else the response is returned.
after_loop(s) ==
    IF s.timeout_count = s.timeout
      THEN [s EXCEPT !.pc = "done", !.done = TRUE,
                     !.outcome = IF s.timeout_possible THEN "timeout" ELSE "TestFailure"]
      ELSE [s EXCEPT !.pc = "done", !.done = TRUE, !.outcome = "returned",
                     !.edges = IF s.spi /\ s.cmd_num # 53 THEN @ + 8 ELSE @]

\* while timeout_count < timeout
loop_goes_on(s) == s.timeout_count < s.timeout

\* get_cmd_response_bits is called: the response type and length of the
\* command, the counter, the zeroed response; no response type, no wait.
ResponseBitsCall ==
    /\ fx.f = "get_cmd_response_bits" /\ fx.pc = "call"
    /\ LET rt == IF fx.spi THEN get_spi_response_type(fx.cmd_num)
                 ELSE get_response_type(fx.cmd_num)
           s == [fx EXCEPT !.response_length = rt[2], !.response_bit_counter = rt[2],
                           !.response = [n \in 0..(rt[2] - 1) |-> 0]]
       IN  fx' = IF rt[1] = "None" THEN [s EXCEPT !.pc = "done", !.done = TRUE, !.outcome = "None"]
                 ELSE IF loop_goes_on(s) THEN [s EXCEPT !.pc = "loop"]
                 ELSE after_loop(s)
    /\ FxRest

\* One pass of the loop: the rising edge, then the start bit, a further bit or
\* the break; after the pass the loop test, and the code after the loop.
ResponseBitsEdge ==
    /\ fx.f = "get_cmd_response_bits" /\ fx.pc = "loop"
    /\ LET e == fx.edges + 1
           waiting == fx.response_bit_counter = fx.response_length
           stores == IF waiting THEN cmd_line(e) = 0 ELSE fx.response_bit_counter > 0
           breaks == ~waiting /\ fx.response_bit_counter = 0
           s == IF breaks THEN [fx EXCEPT !.edges = e]
                ELSE IF stores
                  THEN [fx EXCEPT !.edges = e, !.timeout_count = @ + 1,
                                  !.response[fx.response_bit_counter - 1] = cmd_line(e),
                                  !.response_bit_counter = @ - 1]
                ELSE [fx EXCEPT !.edges = e, !.timeout_count = @ + 1]
       IN  fx' = IF ~breaks /\ loop_goes_on(s) THEN s ELSE after_loop(s)
    /\ FxRest

\* parse_cis_tuple_table(fx.addr) is called on fx.cis_data: the locals, the
\* offset, and the loop's first test.
ParseCisCall ==
    /\ fx.f = "parse_cis_tuple_table" /\ ~fx.done /\ fx.k = 0
    /\ fx' = [fx EXCEPT !.k = (fx.addr % 256) + 1, !.st = ParseStart,
                        !.done = (fx.addr % 256) + 1 > Len(fx.cis_data)]
    /\ FxRest

\* One pass of `for byte in self.cis_data[cis_offset:]`; the loop ends by the
\* break, by the raise or with the buffer.
ParseCisByte ==
    /\ fx.f = "parse_cis_tuple_table" /\ ~fx.done /\ fx.k > 0
    /\ LET s == parse_byte(fx.st, fx.cis_data[fx.k])
       IN  fx' = [fx EXCEPT !.k = @ + 1, !.st = s,
                            !.done = s.end # "none" \/ fx.k + 1 > Len(fx.cis_data)]
    /\ FxRest

\* crc16_gen is applied to its arguments.
ApplyCrc16Gen ==
    /\ fx.f = "crc16_gen" /\ ~fx.done
    /\ fx' = [fx EXCEPT !.done = TRUE, !.rv = crc16_gen(fx.data, fx.num_bits)]
    /\ FxRest

NextFn ==
    \/ ApplyCrc16Gen
    \/ ApplySendCmd
    \/ ApplyGetCmdResponse
    \/ ApplyGetResponseType
    \/ ResponseBitsCall
    \/ ResponseBitsEdge
    \/ ParseCisCall
    \/ ParseCisByte

SpecFn == InitFn /\ [][NextFn]_vars

Responded == fx.f = "get_cmd_response" /\ fx.done

\* The framing of fx.response, by the SD specification: its CRC7 field is the
\* CRC7 of its bits 47..8, and its bits 45..40 are the command number (all ones
\* for an R4 response).
CrcRight == Field(fx.response, 7, 1) = Crc7Ref(fx.response, 47, 8, 0)

EchoRight ==
    Field(fx.response, 45, 40) =
        (IF ResponseType(FALSE, fx.cmd_num) = "R4" THEN 63 ELSE fx.cmd_num)

\* C11: in native mode get_cmd_response raises SDIOProtocolError exactly when
\* the CRC7 field or the echoed command number (all ones for R4) is wrong, and
\* a wrong CRC7 is reported as such (with its quiet period) whatever the echo
\* and the status bits are.
C11_FramingChecks ==
    Responded =>
        /\ (fx.checked.kind # "SDIOProtocolError") <=> (CrcRight /\ EchoRight)
        /\ ~CrcRight => fx.checked = Err("SDIOProtocolError", TRUE)

\* C11 happens: a response with a wrong CRC7 and a fatal status bit, to CMD7, was
\* refused as a protocol error.
C11_Witness ==
    /\ Responded
    /\ fx.cmd_num = 7
    /\ ~CrcRight /\ EchoRight
    /\ fx.response[39] = 1
    /\ fx.checked.kind = "SDIOProtocolError"

\* The error the device reports in fx.response, read from the frame: a fatal
\* card-status bit or a CURRENT_STATE other than 0xF in an R1/R1b response, an
\* error flag in an R5 response (card status bit b is frame bit b + 8; the R5
\* flags 7..0 are the frame bits 23..16).
DeviceReportedError ==
    LET type == ResponseType(FALSE, fx.cmd_num)
    IN  IF type \in {"R1", "R1b"}
          THEN \/ \E b \in {39, 31, 30, 27}: fx.response[b] = 1
               \/ <<fx.response[20], fx.response[19], fx.response[18], fx.response[17]>>
                      # <<1, 1, 1, 1>>
        ELSE IF type = "R5"
          THEN \E b \in {23, 22, 19, 17, 16}: fx.response[b] = 1
        ELSE FALSE

\* C12: in native mode a command (CMD7, CMD52, CMD53) whose response passes the
\* framing checks raises SDIOResponseError if and only if the device reported
\* an error in it, and otherwise raises nothing; the R5 bits 5:4 play no part.
C12_ResponseErrorIffReported ==
    (Responded /\ fx.cmd_num \in {7, 52, 53} /\ CrcRight /\ EchoRight) =>
        /\ (fx.outcome.kind = "SDIOResponseError") <=> DeviceReportedError
        /\ ~DeviceReportedError => fx.outcome = NoErr

\* C12 happens: a well-framed R5 response to CMD52 with both informational
\* bits and the error flag 3 set was refused.
C12_Witness ==
    /\ Responded /\ fx.cmd_num = 52 /\ CrcRight /\ EchoRight
    /\ fx.response[21] = 1 /\ fx.response[20] = 1 /\ fx.response[19] = 1
    /\ fx.response[23] = 0 /\ fx.response[22] = 0
    /\ fx.outcome.kind = "SDIOResponseError"

\* C12 happens, the other way: a well-framed R5 response with only the
\* informational bits set was accepted.
C12_WitnessInformational ==
    /\ Responded /\ fx.cmd_num = 52 /\ CrcRight /\ EchoRight
    /\ fx.response[21] = 1 /\ fx.response[20] = 1
    /\ fx.outcome = NoErr

\* ----------------------------------------- more properties of Spec (errors)

HostErrors == {"SDIOProtocolError", "SDIOResponseError", "SDIODataError"}

\* C13: a host operation that raises a protocol, response or data error has
\* just spent the last of the four edges of a quiet period: the step that ends
\* a call with such an error is the last step of the quiet period.
C13_QuietBeforeRaise ==
    [][\A f \in HostFibres:
          (fib[f].pc # "done" /\ fib'[f].pc = "done" /\ fib'[f].out.kind \in HostErrors)
              => (fib[f].pc = "quiet" /\ fib[f].cnt = 1)]_vars

\* The step in which a cmd_io_rw_direct call of fibre f, waiting for its
\* response, ends because no start bit came within the timeout.
SilenceEnds(f) ==
    /\ fib[f].pc = "resp" /\ fib[f].call.m = "cmd_io_rw_direct"
    /\ fib'[f].pc = "done" /\ fib'[f].out.kind \in {"timeout", "TestFailure"}

\* C14: when the device never answers a cmd_io_rw_direct call, the call made
\* with timeout_possible returns "timeout" with the lease released and the
\* host's attributes unchanged, and the call made without it raises TestFailure.
C14_TimeoutReturned ==
    [][\A f \in HostFibres:
          SilenceEnds(f) =>
              IF fib[f].call.tp
                THEN /\ fib'[f].out.kind = "timeout"
                     /\ lock'[f] = "none" /\ cmd_bus_busy' = FALSE
                     /\ UNCHANGED <<host, spi_mode, data_write_aborted,
                                    data_read_aborted, read_wait_asserted>>
                ELSE fib'[f].out.kind = "TestFailure"]_vars

\* C14 happens: a read_reg call with timeout_possible has returned "timeout"
\* and holds no lease.
C14_Witness ==
    \E f \in HostFibres:
        /\ Terminated(f) /\ fib[f].call.m = "cmd_io_rw_direct" /\ fib[f].call.tp
        /\ fib[f].call.rw = 0
        /\ fib[f].out.kind = "timeout"
        /\ lock[f] = "none"

\* The native response table of the specification, for the commands it lists.
ResponseTable ==
    [c \in {0, 4, 15} |-> "None"] @@ (3 :> "R6") @@ (5 :> "R4") @@ (7 :> "R1b")
        @@ (8 :> "R7") @@ (52 :> "R5") @@ (53 :> "R5")

\* C15: the native response-type lookup gives, for each command of the table,
\* the response kind of the table (none for CMD0, CMD4 and CMD15) and the
\* length 48.
C15_ResponseTypeTable ==
    (fx.f = "get_response_type" /\ fx.done /\ fx.cmd_num \in DOMAIN ResponseTable) =>
        fx.rv = <<ResponseTable[fx.cmd_num], 48>>

\* ------------------------------------------------ properties of SpecFn (frames)

Sent == fx.f = "send_cmd" /\ fx.done

\* C16: every frame a command method puts on the wire has bit 47 = 0,
\* bit 46 = 1, bit 0 = 1 and in bits 7..1 the CRC7 (x^7 + x^3 + 1, zero initial
\* value) of its bits 47..8; for CMD0 that field is 0x4A.
C16_FrameWellFormed ==
    Sent =>
        /\ fx.cmd[47] = 0 /\ fx.cmd[46] = 1 /\ fx.cmd[0] = 1
        /\ Field(fx.cmd, 7, 1) = Crc7Ref(fx.cmd, 47, 8, 0)
        /\ fx.m = "cmd_go_idle" =>
              <<fx.cmd[7], fx.cmd[6], fx.cmd[5], fx.cmd[4], fx.cmd[3], fx.cmd[2], fx.cmd[1]>>
                  = <<1, 0, 0, 1, 0, 1, 0>>

\* C16 happens: CMD0 was sent, and a CMD53 frame with every argument bit set
\* was sent with a CRC7 field that is not zero.
C16_Witness ==
    /\ Sent /\ fx.m = "cmd_io_rw_extended"
    /\ fx.a.addr = 131071 /\ fx.a.count = 511 /\ fx.a.fn = 7
    /\ Field(fx.cmd, 7, 1) # 0

C16_WitnessCmd0 == Sent /\ fx.m = "cmd_go_idle" /\ Field(fx.cmd, 7, 1) = 74

\* C17: the CMD52 frame of cmd_io_rw_direct(rw, fn, raw, addr, data) carries
\* rw in bit 39, fn in bits 38..36, raw in bit 35, addr in bits 33..17, zero in
\* bits 34 and 16, and in bits 15..8 data for a write and zero for a read; and
\* when the native response is accepted the call returns its bits 15..8.
C17_DirectFrameAndReturn ==
    /\ (Sent /\ fx.m = "cmd_io_rw_direct") =>
          /\ \A k \in 0..5: fx.cmd[40 + k] = Bit(52, k)
          /\ fx.cmd[39] = fx.a.rw
          /\ \A k \in 0..2: fx.cmd[36 + k] = Bit(fx.a.fn, k)
          /\ fx.cmd[35] = fx.a.raw
          /\ fx.cmd[34] = 0
          /\ \A k \in 0..16: fx.cmd[17 + k] = Bit(fx.a.addr, k)
          /\ fx.cmd[16] = 0
          /\ \A k \in 0..7: fx.cmd[8 + k] = (IF fx.a.rw = 1 THEN Bit(fx.a.data, k) ELSE 0)
    /\ (Responded /\ fx.cmd_num = 52 /\ fx.outcome = NoErr) =>
          /\ fx.value \in 0..255
          /\ \A k \in 0..7: Bit(fx.value, k) = fx.response[8 + k]

\* C17 happens: a read with raw set, the widest fn and addr and a data
\* argument that is not used was put on the wire.
C17_Witness ==
    /\ Sent /\ fx.m = "cmd_io_rw_direct"
    /\ fx.a.rw = 0 /\ fx.a.raw = 1 /\ fx.a.fn = 7 /\ fx.a.addr = 131071 /\ fx.a.data = 255
    /\ fx.cmd[35] = 1 /\ fx.cmd[15] = 0

\* C17 happens, the return: an accepted response to CMD52 gave the byte 0x5A.
C17_WitnessReturn ==
    /\ Responded /\ fx.cmd_num = 52 /\ fx.outcome = NoErr /\ fx.value = 90

\* ------------------------------------------------- the CIS and the block sizes

\* for tuple in tuples: if tuple[0] == 0x22: size = (tuple[hi] << 8) | tuple[lo];
\* break -- the size, or the error raised (IndexError when the tuple is too
\* short, SDIODataError when there is no such tuple).
max_blocksize(tuples, lo, hi) ==
    LET found == {i \in 1..Len(tuples): tuples[i][1] = 34}
    IN  IF found = {} THEN [err |-> "SDIODataError", size |-> 0]
        ELSE LET tuple == tuples[CHOOSE i \in found: \A j \in found: i <= j]
             IN  IF Len(tuple) <= hi THEN [err |-> "IndexError", size |-> 0]
                 ELSE [err |-> "none", size |-> tuple[hi + 1] * 256 + tuple[lo + 1]]

\* The block size of function fn as sdio_init works it out: tuple bytes 3 and 4
\* for function 0, 14 and 15 for the others.
fn_blocksize(cis_data, fn_cis_addrs, fn) ==
    LET parsed == parse_cis_tuple_table(cis_data, fn_cis_addrs[fn])
    IN  IF parsed.err # "none" THEN [err |-> parsed.err, size |-> 0]
        ELSE IF fn = 0 THEN max_blocksize(parsed.tuples, 3, 4)
        ELSE max_blocksize(parsed.tuples, 14, 15)

\* The end of sdio_init: function 0, then `for fn in range(1, self.fn_count)`,
\* stopping at the first error.
RECURSIVE get_blocksizes(_, _)
get_blocksizes(h, fn) ==
    IF fn >= h.fn_count THEN [err |-> "none", host |-> h]
    ELSE LET r == fn_blocksize(h.cis_data, h.fn_cis_addrs, fn)
         IN  IF r.err # "none" THEN [err |-> r.err, host |-> h]
             ELSE get_blocksizes([h EXCEPT !.fn_max_blocksizes[fn] = r.size], fn + 1)

\* ------------------------------------------------------- SpecInit: sdio_init

MaxRcaChanges == 1   \* the largest rca_changes argument tried
\* The calls of sdio_init made on one host: the first, and a second one after
\* the first has returned.
InitCalls == {1, 2}

CisBytes == 256      \* count=256 of the CIS read

\* A command method call as it is logged in wire: the method and its arguments.
Call(m, a) == [m |-> m, a |-> a]
ReadReg(addr) == Call("cmd_io_rw_direct", [NoArgs EXCEPT !.addr = addr])
WriteReg(addr, data) ==
    Call("cmd_io_rw_direct", [NoArgs EXCEPT !.rw = 1, !.addr = addr, !.data = data])

\* reg[3] = 1
SetRes(reg) == IF Bit(reg, 3) = 1 THEN reg ELSE reg + 8

\* The cached CIS images tried: the bytes a device returns, padded with 0xff.
Pad(image) == image \o [i \in 1..(CisBytes - Len(image)) |-> 255]

Funce0 == <<34, 4, 0, 0, 2, 50>>
Funce0Zero == <<34, 4, 0, 0, 0, 50>>
Funce1 == <<34, 14, 1, 2, 3, 4, 5, 6, 7, 8, 9, 10, 11, 12, 0, 2>>

CisImages ==
    {Pad(Funce0), Pad(Funce0 \o Funce1), Pad(<<34, 2, 0, 2>>), Pad(Funce0Zero),
     Pad(<<32, 4, 1, 2, 3, 4>>), Pad(<<32, 0>>), Pad(Funce1)}

\* The register bytes a device returns: to the probe, for the common CIS
\* pointer, for an FBR's function code, for a function's CIS pointer.
ProbeVals == {0, 9}
CisPointerByte(k) == IF k = 0 THEN {0} ELSE IF k = 1 THEN {16} ELSE {0}
FbrVals(fn) == IF fn \in {1, 2} THEN {0, 1} ELSE {0}
FnCisPointerByte(k) == IF k = 0 THEN {0, 6} ELSE IF k = 1 THEN {16} ELSE {0}
Cmd3Rcas == {1, 2}
CapVals == {0, 90}

\* A variant of send_relative_addr_calls without the first call: it shows that
\* C18 depends on CMD3 being sent before the repetitions.
send_relative_addr_calls_repeats(rca_changes) == rca_changes

\* The number of cmd_send_relative_addr calls: one, then one per rca_changes.
send_relative_addr_calls(rca_changes) == 1 + rca_changes

InitRest == UNCHANGED <<leaseVars, hostVars, fx, bus_width>>

Step(pc) == sq.pc = pc
Sends(c) == wire' = Append(wire, c)

\* sdio_init(rca_changes) is called, on a new host or after an sdio_init that
\* has returned (wire and the history then start again; the host's attributes
\* are what the earlier call left).
InitCall ==
    /\ Step("idle") \/ Step("returned")
    /\ sq.calls + 1 \in InitCalls
    /\ \E n \in 0..MaxRcaChanges:
         sq' = [NoSq EXCEPT !.pc = IF spi_mode THEN "cmd0a" ELSE "probe", !.rca_changes = n,
                            !.calls = sq.calls + 1]
    /\ wire' = <<>>
    /\ UNCHANGED host
    /\ InitRest

\* reg = yield self.read_reg(fn=0, addr=6, timeout_possible=True)
InitProbe ==
    /\ Step("probe")
    /\ Sends(ReadReg(6))
    /\ \/ sq' = [sq EXCEPT !.pc = "cmd0a", !.probe = "timeout"]
       \/ \E reg \in ProbeVals:
            sq' = [sq EXCEPT !.pc = "probe_write", !.probe = "answered", !.reg = reg]
    /\ UNCHANGED host
    /\ InitRest

\* reg[3] = 1; yield self.write_reg(fn=0, addr=6, data=reg.integer)
InitProbeWrite ==
    /\ Step("probe_write")
    /\ Sends(WriteReg(6, SetRes(sq.reg)))
    /\ sq' = [sq EXCEPT !.pc = "cmd0a"]
    /\ UNCHANGED host
    /\ InitRest

\* yield self.cmd_go_idle(), twice
InitGoIdle ==
    /\ Step("cmd0a") \/ Step("cmd0b")
    /\ Sends(Call("cmd_go_idle", NoArgs))
    /\ sq' = [sq EXCEPT !.pc = IF sq.pc = "cmd0a" THEN "cmd0b" ELSE "cmd8"]
    /\ UNCHANGED host
    /\ InitRest

\* yield self.cmd_send_if_cond()
InitSendIfCond ==
    /\ Step("cmd8")
    /\ \E p \in PatternVals: Sends(Call("cmd_send_if_cond", [NoArgs EXCEPT !.pattern = p]))
    /\ sq' = [sq EXCEPT !.pc = "cmd5"]
    /\ UNCHANGED host
    /\ InitRest

\* yield self.cmd_send_op_cond(); in SPI mode CMD3 and CMD7 are left out.
InitSendOpCond ==
    /\ Step("cmd5")
    /\ Sends(Call("cmd_send_op_cond", NoArgs))
    /\ sq' = [sq EXCEPT !.pc = IF spi_mode THEN "cap"
                               ELSE IF send_relative_addr_calls(sq.rca_changes) > 0
                                 THEN "cmd3" ELSE "cmd7",
                        !.left = send_relative_addr_calls(sq.rca_changes)]
    /\ UNCHANGED host
    /\ InitRest

\* response = yield self.cmd_send_relative_addr(); self.rca = response[39:24]
InitSendRelativeAddr ==
    /\ Step("cmd3")
    /\ Sends(Call("cmd_send_relative_addr", NoArgs))
    /\ \E rca \in Cmd3Rcas:
         /\ host' = [host EXCEPT !.rca = rca]
         /\ sq' = [sq EXCEPT !.left = @ - 1, !.last_rca = rca,
                             !.pc = IF sq.left > 1 THEN "cmd3" ELSE "cmd7"]
    /\ InitRest

\* response = yield self.cmd_select_card(self.rca)
InitSelectCard ==
    /\ Step("cmd7")
    /\ Sends(Call("cmd_select_card", [NoArgs EXCEPT !.rca = host.rca]))
    /\ sq' = [sq EXCEPT !.pc = "cap"]
    /\ UNCHANGED host
    /\ InitRest

\* reg = yield self.cmd_io_rw_direct(rw=0, fn=0, raw=0, addr=8)
InitReadCapability ==
    /\ Step("cap")
    /\ Sends(ReadReg(8))
    /\ \E reg \in CapVals: host' = [host EXCEPT !.caps = capabilities(reg)]
    /\ sq' = [sq EXCEPT !.pc = "cisptr", !.k = 0]
    /\ InitRest

\* self.fn_cis_addrs[0] (|)= (yield self.read_reg(fn=0, addr=9 + k)) << 8 * k
InitReadCisPointer ==
    /\ Step("cisptr")
    /\ Sends(ReadReg(9 + sq.k))
    /\ \E b \in CisPointerByte(sq.k):
         host' = [host EXCEPT !.fn_cis_addrs[0] =
                     (IF sq.k = 0 THEN 0 ELSE @) + b * (256 ^ sq.k)]
    /\ sq' = IF sq.k < 2 THEN [sq EXCEPT !.k = @ + 1] ELSE [sq EXCEPT !.pc = "cisread", !.k = 0]
    /\ InitRest

\* self.cis_data = yield self.cmd_io_rw_extended(rw=0, fn=0, block=0, op=0,
\*                                               addr=self.fn_cis_addrs[0], count=256)
InitReadCis ==
    /\ Step("cisread")
    /\ Sends(Call("cmd_io_rw_extended",
                  [NoArgs EXCEPT !.addr = host.fn_cis_addrs[0], !.count = CisBytes]))
    /\ \E image \in CisImages: host' = [host EXCEPT !.cis_data = image]
    /\ sq' = [sq EXCEPT !.pc = "fbr", !.fn = 1]
    /\ InitRest

\* The loop `for fn in range(1,8)` moves on to the next function.
NextFunction(s) ==
    IF s.fn < 7 THEN [s EXCEPT !.pc = "fbr", !.fn = @ + 1, !.k = 0]
    ELSE [s EXCEPT !.pc = "blocksizes", !.fn = 0, !.k = 0]

\* reg = yield self.read_reg(fn=0, addr=FBRn); if reg & 0xf: self.fn_count += 1
InitReadFbr ==
    /\ Step("fbr")
    /\ Sends(ReadReg(256 * sq.fn))
    /\ \E reg \in FbrVals(sq.fn):
         IF reg % 16 # 0
           THEN /\ host' = [host EXCEPT !.fn_count = @ + 1]
                /\ sq' = [sq EXCEPT !.pc = "fncisptr", !.k = 0,
                                    !.present = @ \cup {sq.fn}]
           ELSE /\ UNCHANGED host
                /\ sq' = NextFunction(sq)
    /\ InitRest

\* self.fn_cis_addrs[fn] (|)= (yield self.read_reg(fn=0, addr=FBRn + 9 + k)) << 8 * k
InitReadFnCisPointer ==
    /\ Step("fncisptr")
    /\ Sends(ReadReg(256 * sq.fn + 9 + sq.k))
    /\ \E b \in FnCisPointerByte(sq.k):
         host' = [host EXCEPT !.fn_cis_addrs[sq.fn] =
                     (IF sq.k = 0 THEN 0 ELSE @) + b * (256 ^ sq.k)]
    /\ sq' = IF sq.k < 2 THEN [sq EXCEPT !.k = @ + 1] ELSE NextFunction(sq)
    /\ InitRest

\* The block sizes are taken from the cached CIS; sdio_init returns, or raises.
InitBlockSizes ==
    /\ Step("blocksizes")
    /\ LET r == get_blocksizes(host, 0)
       IN  /\ host' = r.host
           /\ sq' = [sq EXCEPT !.pc = IF r.err = "none" THEN "returned" ELSE "raised",
                               !.err = r.err]
    /\ UNCHANGED wire
    /\ InitRest

\* A command of sdio_init ends by raising (no response where one is required,
\* or a response that is refused): sdio_init ends there.
InitCommandRaises ==
    /\ \/ sq.pc \in {"probe", "probe_write", "cmd8", "cmd5", "cmd3", "cmd7", "cap",
                      "cisptr", "cisread", "fbr", "fncisptr"}
       \/ spi_mode /\ sq.pc \in {"cmd0a", "cmd0b"}
    /\ \E e \in {"TestFailure", "SDIOProtocolError", "SDIOResponseError"}:
         sq' = [sq EXCEPT !.pc = "raised", !.err = e]
    /\ UNCHANGED <<host, wire>>
    /\ InitRest

InitInit ==
    /\ LeaseInit /\ HostInit
    /\ host = init_state /\ wire = <<>> /\ sq = NoSq /\ fx = NoFx /\ bus_width = 1

NextInit ==
    \/ InitCall
    \/ InitProbe
    \/ InitProbeWrite
    \/ InitGoIdle
    \/ InitSendIfCond
    \/ InitSendOpCond
    \/ InitSendRelativeAddr
    \/ InitSelectCard
    \/ InitReadCapability
    \/ InitReadCisPointer
    \/ InitReadCis
    \/ InitReadFbr
    \/ InitReadFnCisPointer
    \/ InitBlockSizes
    \/ InitCommandRaises

SpecInit == InitInit /\ [][NextInit]_vars

\* ------------------------------------------------------ properties of SpecInit

InitReturned == sq.pc = "returned"

\* The command numbers of the first n commands sent.
CmdNumbers(n) == [i \in 1..n |-> CmdOf(wire[i].m)]

\* The number of commands of the probe: the read, and the write if it answered.
ProbeLen == IF sq.probe = "answered" THEN 2 ELSE 1

IsRead(c, addr) ==
    c.m = "cmd_io_rw_direct" /\ c.a.rw = 0 /\ c.a.fn = 0 /\ c.a.addr = addr

\* C18: after a successful sdio_init in native mode the wire carries, in this
\* order, the probe read of CCCR 6 (and, only if it answered, the write of the
\* value read with bit 3 set), CMD0, CMD0, CMD8, CMD5, CMD3 1 + rca_changes
\* times, CMD7, CMD52 reads of CCCR 8, 9, 10, 11 and one byte-mode CMD53 read of
\* 256 bytes; host.rca and the RCA of CMD7 are the RCA of the last CMD3 response.
\* In SPI mode there is no probe, CMD3 or CMD7 and rca stays None.
C18_InitSequence ==
    InitReturned =>
        IF ~spi_mode
          THEN LET p == ProbeLen
                   n == 1 + sq.rca_changes
                   m == p + 4 + n
               IN  /\ Len(wire) >= m + 6
                   /\ CmdNumbers(m + 6) =
                          [i \in 1..p |-> 52] \o <<0, 0, 8, 5>> \o [i \in 1..n |-> 3]
                              \o <<7, 52, 52, 52, 52, 53>>
                   /\ IsRead(wire[1], 6)
                   /\ sq.probe \in {"timeout", "answered"}
                   /\ sq.probe = "answered" =>
                         /\ wire[2].a.rw = 1 /\ wire[2].a.fn = 0 /\ wire[2].a.addr = 6
                         /\ Bit(wire[2].a.data, 3) = 1
                         /\ \A b \in (0..7) \ {3}: Bit(wire[2].a.data, b) = Bit(sq.reg, b)
                   /\ wire[m + 1].a.rca = sq.last_rca
                   /\ host.rca = sq.last_rca /\ host.rca # -1
                   /\ \A j \in 0..3: IsRead(wire[m + 2 + j], 8 + j)
                   /\ wire[m + 6].a.rw = 0 /\ wire[m + 6].a.block = 0
                   /\ wire[m + 6].a.count = 256
          ELSE /\ Len(wire) >= 9
               /\ CmdNumbers(9) = <<0, 0, 8, 5, 52, 52, 52, 52, 53>>
               /\ \A i \in 1..Len(wire):
                     /\ wire[i].m \notin {"cmd_send_relative_addr", "cmd_select_card"}
                     /\ ~IsRead(wire[i], 6)
               /\ \A j \in 0..3: IsRead(wire[5 + j], 8 + j)
               /\ wire[9].a.rw = 0 /\ wire[9].a.block = 0 /\ wire[9].a.count = 256
               /\ host.rca = -1

\* C18 happens: a native sdio_init with a repeated CMD3 and an answered probe
\* has returned.
C18_Witness ==
    /\ InitReturned /\ ~spi_mode
    /\ sq.rca_changes = 1 /\ sq.probe = "answered" /\ sq.reg = 9
    /\ host.rca = 2

\* C18 happens in SPI mode too.
C18_WitnessSpi == InitReturned /\ spi_mode /\ sq.rca_changes = 1

\* C19: after sdio_init has returned, the maximum block size of every function
\* below fn_count is strictly positive.
C19_BlockSizesPositive ==
    InitReturned => \A fn \in 0..(host.fn_count - 1): host.fn_max_blocksizes[fn] > 0

\* sdio_init has gone through its block size extraction (it returned, or the
\* extraction raised).
BlockSizesDone ==
    sq.pc \in {"returned", "raised"} /\ sq.err \in {"none", "SDIODataError", "IndexError"}

\* C20: with the cached CIS holding the FUNCE tuple [0x22, 0x02, 0x00, 0x02] for
\* function 0, sdio_init sets fn_max_blocksizes[0] to 0x0200 = 512 and the
\* extraction for function 0 raises nothing.
C20_Fn0BlockSize ==
    (BlockSizesDone /\ host.cis_data = Pad(<<34, 2, 0, 2>>)) =>
        /\ host.fn_max_blocksizes[0] = 512
        /\ sq.err # "IndexError"

\* ------------------------------------------ SpecOps: the host's helper methods

\* The arguments tried and the register bytes a device returns.
WidthVals == {1, 4, 8}
BlockSizeVals == {1, 300, 512, 513}
OpFnVals == {0, 1, 2}
WidthRegVals == {0, 2, 129, 255}

\* The hosts a successful sdio_init leaves: an RCA, the capability flags, the
\* cached CIS, one or two functions and their maximum block sizes.
DiscoveredHosts ==
    LET tried == {[init_state EXCEPT !.rca = rca, !.caps = capabilities(cap),
                                     !.cis_data = image, !.fn_count = n,
                                     !.fn_cis_addrs[0] = 4096,
                                     !.fn_cis_addrs[1] = IF n = 2 THEN 4102 ELSE 0]:
                     rca \in Cmd3Rcas, cap \in CapVals, image \in CisImages, n \in {1, 2}}
    IN  {get_blocksizes(h, 0).host: h \in {t \in tried: get_blocksizes(t, 0).err = "none"}}

\* No helper method called yet: the method, its arguments, its position, the
\* byte of its last register read, and as history the register byte first
\* read, phy.bus_width at the call and how the call ended.
NoOp == [pc |-> "idle", op |-> "none", width |-> 0, fn |-> 0, blocksize |-> 0, reg |-> 0,
         read |-> 0, before |-> 1, res |-> "none", err |-> "none"]

OpsRest == UNCHANGED <<leaseVars, hostVars, fx>>

Returns(s) == [s EXCEPT !.pc = "idle", !.res = "returned"]
Raises(s, e) == [s EXCEPT !.pc = "idle", !.res = "raised", !.err = e]
Calls(op, pc) ==
    [NoOp EXCEPT !.op = op, !.pc = pc, !.before = bus_width, !.res = "running"]

\* The two-bit code of a bus width (value in set_bus_width).
bus_width_code(width) == IF width = 4 THEN 2 ELSE 0

\* A variant of set_width_bits that writes the code alone: it shows that C21
\* depends on the other six bits of the register being written back.
set_width_bits_alone(reg, value) == value

\* reg[0] = value[0]; reg[1] = value[1]
set_width_bits(reg, value) == reg - (reg % 4) + value

\* set_bus_width(width) is called: another width than 1 or 4 is logged and the
\* call returns.
SetBusWidthCall ==
    /\ Step("idle")
    /\ \E width \in WidthVals:
         sq' = IF width \in {1, 4}
                 THEN [Calls("set_bus_width", "bw_read") EXCEPT !.width = width]
                 ELSE Returns([Calls("set_bus_width", "idle") EXCEPT !.width = width])
    /\ wire' = <<>>
    /\ UNCHANGED <<host, bus_width>>
    /\ OpsRest

\* reg = yield self.read_reg(fn=0, addr=7), and the width bits are replaced.
SetBusWidthRead ==
    /\ Step("bw_read")
    /\ Sends(ReadReg(7))
    /\ \E reg \in WidthRegVals:
         sq' = [sq EXCEPT !.pc = "bw_write", !.read = reg,
                          !.reg = set_width_bits(reg, bus_width_code(sq.width))]
    /\ UNCHANGED <<host, bus_width>>
    /\ OpsRest

\* yield self.write_reg(fn=0, addr=7, data=reg.integer)
SetBusWidthWrite ==
    /\ Step("bw_write")
    /\ Sends(WriteReg(7, sq.reg))
    /\ sq' = [sq EXCEPT !.pc = "bw_confirm"]
    /\ UNCHANGED <<host, bus_width>>
    /\ OpsRest

\* reg = yield self.read_reg(fn=0, addr=7); assert (reg & 0x3) == value.integer
SetBusWidthConfirm ==
    /\ Step("bw_confirm")
    /\ Sends(ReadReg(7))
    /\ \E reg \in WidthRegVals:
         sq' = IF reg % 4 = bus_width_code(sq.width)
                 THEN [sq EXCEPT !.pc = "bw_set", !.reg = reg]
                 ELSE Raises([sq EXCEPT !.reg = reg], "AssertionError")
    /\ UNCHANGED <<host, bus_width>>
    /\ OpsRest

\* reg = yield self.read_reg(fn=0, addr=7); self.phy.bus_width = width
SetBusWidthSet ==
    /\ Step("bw_set")
    /\ Sends(ReadReg(7))
    /\ bus_width' = sq.width
    /\ sq' = Returns(sq)
    /\ UNCHANGED host
    /\ OpsRest

\* set_block_size(fn, blocksize) is called.  For function 0 the assertion reads
\* self.fn0_max_blocksize, an attribute no code of the host defines; for a
\* function below fn_count it compares with fn_max_blocksizes[fn]; for any
\* other function the call raises.
SetBlockSizeCall ==
    /\ Step("idle")
    /\ \E fn \in OpFnVals, blocksize \in BlockSizeVals:
         LET s == [Calls("set_block_size", "bs_low") EXCEPT !.fn = fn, !.blocksize = blocksize]
         IN  sq' = IF fn = 0 THEN Raises(s, "AttributeError")
                   ELSE IF fn < host.fn_count
                     THEN IF blocksize <= host.fn_max_blocksizes[fn] THEN s
                          ELSE Raises(s, "AssertionError")
                   ELSE Raises(s, "Exception")
    /\ wire' = <<>>
    /\ UNCHANGED <<host, bus_width>>
    /\ OpsRest

\* yield self.write_reg(fn=0, addr=fn_blocksize_addr, data=blocksize & 0xff)
SetBlockSizeLow ==
    /\ Step("bs_low")
    /\ Sends(WriteReg(256 * sq.fn + 16, sq.blocksize % 256))
    /\ sq' = [sq EXCEPT !.pc = "bs_high"]
    /\ UNCHANGED <<host, bus_width>>
    /\ OpsRest

\* yield self.write_reg(fn=0, addr=fn_blocksize_addr + 1, data=(blocksize >> 8) & 0xff)
SetBlockSizeHigh ==
    /\ Step("bs_high")
    /\ Sends(WriteReg(256 * sq.fn + 17, (sq.blocksize \div 256) % 256))
    /\ sq' = Returns(sq)
    /\ UNCHANGED <<host, bus_width>>
    /\ OpsRest

\* A variant of init_state that keeps the RCA: it shows that C23 depends on
\* soft_reset clearing every field.
init_state_keeps_rca == [init_state EXCEPT !.rca = 1]

\* What soft_reset leaves of the host's state: self.init_state().
reset_state == init_state

\* soft_reset() is called.
SoftResetCall ==
    /\ Step("idle")
    /\ sq' = Calls("soft_reset", "sr_write")
    /\ wire' = <<>>
    /\ UNCHANGED <<host, bus_width>>
    /\ OpsRest

\* yield self.write_reg(fn=0, addr=6, data=1<<3); self.init_state()
SoftResetWrite ==
    /\ Step("sr_write")
    /\ Sends(WriteReg(6, 8))
    /\ host' = reset_state
    /\ sq' = Returns(sq)
    /\ UNCHANGED bus_width
    /\ OpsRest

\* reg |= 1 << fn
enable_bit(reg, fn) == IF Bit(reg, fn) = 1 THEN reg ELSE reg + 2 ^ fn

\* reg &= ~0x7; reg |= (fn & 0x7)
abort_bits(reg, fn) == reg - (reg % 8) + (fn % 8)

\* enable_fn(fn) or send_abort(fn) is called.
ReadModifyCall ==
    /\ Step("idle")
    /\ \E op \in {"enable_fn", "send_abort"}, fn \in OpFnVals:
         sq' = [Calls(op, "rm_read") EXCEPT !.fn = fn]
    /\ wire' = <<>>
    /\ UNCHANGED <<host, bus_width>>
    /\ OpsRest

\* The CCCR register the method works on: I/O enables, I/O abort.
modified_reg(op) == IF op = "enable_fn" THEN 2 ELSE 6

\* reg = yield self.read_reg(fn=0, addr=reg_addr), and the bits are changed.
ReadModifyRead ==
    /\ Step("rm_read")
    /\ Sends(ReadReg(modified_reg(sq.op)))
    /\ \E reg \in WidthRegVals:
         sq' = [sq EXCEPT !.pc = "rm_write", !.read = reg,
                          !.reg = IF sq.op = "enable_fn" THEN enable_bit(reg, sq.fn)
                                  ELSE abort_bits(reg, sq.fn)]
    /\ UNCHANGED <<host, bus_width>>
    /\ OpsRest

\* yield self.write_reg(fn=0, addr=reg_addr, data=reg)
ReadModifyWrite ==
    /\ Step("rm_write")
    /\ Sends(WriteReg(modified_reg(sq.op), sq.reg))
    /\ sq' = Returns(sq)
    /\ UNCHANGED <<host, bus_width>>
    /\ OpsRest

\* read_reg or write_reg is called: one CMD52, whose data byte is returned.
RegisterCall ==
    /\ Step("idle")
    /\ \E op \in {"read_reg", "write_reg"}: sq' = Calls(op, "reg_cmd")
    /\ wire' = <<>>
    /\ UNCHANGED <<host, bus_width>>
    /\ OpsRest

RegisterCommand ==
    /\ Step("reg_cmd")
    /\ \E addr \in {0, 7}, reg \in WidthRegVals:
         /\ Sends(IF sq.op = "read_reg" THEN ReadReg(addr) ELSE WriteReg(addr, 90))
         /\ sq' = Returns([sq EXCEPT !.reg = reg])
    /\ UNCHANGED <<host, bus_width>>
    /\ OpsRest

CommandErrors == {"TestFailure", "SDIOProtocolError", "SDIOResponseError"}

\* A CMD52 of a helper method ends by raising: the method ends there.
OpsCommandRaises ==
    /\ sq.pc \in {"bw_read", "bw_write", "bw_confirm", "bw_set", "bs_low", "bs_high",
                  "sr_write", "rm_read", "rm_write", "reg_cmd"}
    /\ \E e \in CommandErrors: sq' = Raises(sq, e)
    /\ UNCHANGED <<host, wire, bus_width>>
    /\ OpsRest

InitOps ==
    /\ LeaseInit /\ HostInit
    /\ host \in DiscoveredHosts /\ wire = <<>> /\ sq = NoOp /\ fx = NoFx /\ bus_width = 1

NextOps ==
    \/ SetBusWidthCall
    \/ SetBusWidthRead
    \/ SetBusWidthWrite
    \/ SetBusWidthConfirm
    \/ SetBusWidthSet
    \/ SetBlockSizeCall
    \/ SetBlockSizeLow
    \/ SetBlockSizeHigh
    \/ SoftResetCall
    \/ SoftResetWrite
    \/ ReadModifyCall
    \/ ReadModifyRead
    \/ ReadModifyWrite
    \/ RegisterCall
    \/ RegisterCommand
    \/ OpsCommandRaises

SpecOps == InitOps /\ [][NextOps]_vars

\* --------------------------------------------------------- properties of SpecOps

RanSetBusWidth == sq.op = "set_bus_width"

\* C21: set_bus_width(width) for width 1 or 4 writes to CCCR 7 the byte it read
\* there with bits 1..0 alone replaced by the width's code (4 -> 0b10,
\* 1 -> 0b00); phy.bus_width is set to width only after a read-back of CCCR 7
\* whose bits 1..0 equal that code, and a read-back that differs makes the
\* call fail with phy.bus_width as it was.  For any other width no command is
\* sent and phy.bus_width is as it was.
C21_SetBusWidth ==
    RanSetBusWidth =>
        /\ sq.width \notin {1, 4} => wire = <<>> /\ bus_width = sq.before /\ sq.res = "returned"
        /\ Len(wire) >= 1 => wire[1] = ReadReg(7)
        /\ Len(wire) >= 2 =>
             /\ wire[2].m = "cmd_io_rw_direct" /\ wire[2].a.rw = 1 /\ wire[2].a.addr = 7
             /\ wire[2].a.fn = 0
             /\ wire[2].a.data % 4 = (IF sq.width = 4 THEN 2 ELSE 0)
             /\ \A n \in 2..7: Bit(wire[2].a.data, n) = Bit(sq.read, n)
        /\ Len(wire) >= 3 => wire[3] = ReadReg(7)
        /\ sq.res \in {"running", "raised"} => bus_width = sq.before
        /\ (sq.res = "returned" /\ sq.width \in {1, 4}) =>
             /\ bus_width = sq.width
             /\ Len(wire) = 4
             /\ sq.reg % 4 = (IF sq.width = 4 THEN 2 ELSE 0)
        /\ (Len(wire) = 3 /\ sq.reg % 4 # (IF sq.width = 4 THEN 2 ELSE 0)) =>
             sq.res = "raised" /\ sq.err = "AssertionError"

\* C21 happens: set_bus_width(4) has returned on a one-bit bus, after reading
\* 0x81 and writing 0x82.
C21_Witness ==
    /\ RanSetBusWidth /\ sq.width = 4 /\ sq.before = 1 /\ sq.res = "returned"
    /\ sq.read = 129 /\ bus_width = 4

\* C21 happens: the read-back of set_bus_width(1) on a four-bit bus differs,
\* and the call has failed.
C21_WitnessReadBack ==
    /\ RanSetBusWidth /\ sq.width = 1 /\ sq.before = 4 /\ sq.err = "AssertionError"
    /\ sq.reg = 2 /\ bus_width = 4

\* C21 happens: set_bus_width(8) has returned.
C21_WitnessUnsupported == RanSetBusWidth /\ sq.width = 8 /\ sq.res = "returned"

\* set_block_size has ended without a command of its own raising.
RanSetBlockSize ==
    sq.op = "set_block_size" /\ sq.pc = "idle" /\ sq.err \notin CommandErrors

\* C22: after a successful sdio_init, set_block_size(fn, blocksize) for a
\* function below fn_count and a blocksize not above the function's discovered
\* maximum issues two CMD52 writes, the low byte then the high byte, to
\* (fn << 8) + 0x10 and (fn << 8) + 0x11 (CCCR 16 and 17 for function 0); with
\* a blocksize above the maximum the assertion fails and nothing is written.
C22_SetBlockSize ==
    (RanSetBlockSize /\ sq.fn < host.fn_count) =>
        IF sq.blocksize <= host.fn_max_blocksizes[sq.fn]
          THEN /\ sq.res = "returned"
               /\ wire = <<WriteReg(256 * sq.fn + 16, sq.blocksize % 256),
                           WriteReg(256 * sq.fn + 17, sq.blocksize \div 256)>>
          ELSE sq.err = "AssertionError" /\ wire = <<>>

RanSoftReset == sq.op = "soft_reset" /\ sq.res = "returned"

OtherOperationStep == sq'.op \notin {"none", "set_bus_width"}

\* C24: no host operation other than sdio_init and set_bus_width changes
\* phy.bus_width or the host's discovered state (RCA, capability flags, cached
\* CIS, CIS pointers, maximum block sizes, fn_count): the register helpers,
\* enable_fn, send_abort, set_block_size and soft_reset leave them as they
\* were, and phy.bus_width is 1 or 4 throughout.
C24_OnlyInitAndBusWidthMutate ==
    [][/\ bus_width' \in {1, 4}
       /\ OtherOperationStep => host' = host /\ bus_width' = bus_width]_vars

\* The same without soft_reset, which holds.
C24_ButSoftReset ==
    [][/\ bus_width' \in {1, 4}
       /\ (OtherOperationStep /\ sq'.op # "soft_reset") =>
            host' = host /\ bus_width' = bus_width]_vars

\* ------------------------------------------ properties of get_cmd_response_bits

RanResponseBits ==
    fx.f = "get_cmd_response_bits" /\ fx.done /\ fx.outcome # "None"

\* The response the device sent, as get_cmd_response_bits should hold it: the
\* first bit sampled is the most significant one.
SentResponse == [n \in 0..(fx.response_length - 1) |-> cmd_line(fx.start + fx.response_length - 1 - n)]

\* C25: get_cmd_response_bits reports a timeout only when no start bit was
\* sampled on the command line within the first `timeout` rising edges; a
\* response whose start bit is sampled inside that window, however late, is
\* shifted in completely, most significant bit first, and returned.
C25_TimeoutOnlyWithoutStartBit ==
    RanResponseBits =>
        IF fx.start <= fx.timeout
          THEN fx.outcome = "returned" /\ fx.response = SentResponse
          ELSE fx.outcome = (IF fx.timeout_possible THEN "timeout" ELSE "TestFailure")

\* The same for the responses that end before the last edge of the window,
\* which holds.
C25_EarlyResponses ==
    (RanResponseBits /\ fx.start + fx.response_length <= fx.timeout) =>
        fx.outcome = "returned" /\ fx.response = SentResponse

\* ---------------------------------------------- properties of the CIS parser

Parsed == fx.f = "parse_cis_tuple_table" /\ fx.done

\* parse_cis_tuple_table raised.
ParseRaised == fx.st.end = "SDIODataError"

\* C26: for a buffer that from offset addr & 0xFF on is a concatenation of
\* well-formed tuples (code byte, link byte L >= 1, L body bytes, at most 100
\* bytes in all) followed by the END byte 0xFF, parse_cis_tuple_table returns
\* exactly those tuples in order, each L+2 bytes long; a 0xFF byte in a tuple
\* body does not end the parse, and nothing after the END byte is returned.
C26_WellFormedTuples ==
    (Parsed /\ fx.wellformed) =>
        /\ ~ParseRaised
        /\ fx.st.return_tuples = fx.tuples
        /\ \A i \in 1..Len(fx.st.return_tuples):
             Len(fx.st.return_tuples[i]) = fx.st.return_tuples[i][2] + 2
        /\ fx.k = (fx.addr % 256) + Len(Concat(fx.tuples)) + 2

\* C26 happens: the tuples [0x20, 4, 0xAA, 0xBB, 0xCC, 0xDD] and
\* [0x22, 2, 0, 2] were parsed from offset 3, with bytes after the END byte.
C26_Witness ==
    /\ Parsed /\ fx.wellformed /\ fx.addr = 4099
    /\ fx.st.return_tuples = << <<32, 4, 170, 187, 204, 221>>, <<34, 2, 0, 2>> >>
    /\ Len(fx.cis_data) = 17

\* C26 happens: a tuple with 0xFF bytes in its body, and one of 100 bytes.
C26_WitnessBody ==
    /\ Parsed /\ fx.wellformed /\ Len(fx.st.return_tuples) = 3
    /\ fx.st.return_tuples[2] = Tuple(21, 98, 255)

\* The outcome an independent reading of the buffer tuple by tuple gives, from
\* the tuple that starts at pos: "raise" for a link byte 0 and for a tuple of
\* which a 101st byte is read, "return" at the END byte and at the end of the
\* buffer.
RECURSIVE TupleWise(_, _)
TupleWise(data, pos) ==
    IF pos > Len(data) \/ data[pos] = 255 \/ pos + 1 > Len(data) THEN "return"
    ELSE IF data[pos + 1] = 0 THEN "raise"
    ELSE IF data[pos + 1] + 2 > 100
      THEN IF pos + 100 <= Len(data) THEN "raise" ELSE "return"
    ELSE TupleWise(data, pos + data[pos + 1] + 2)

\* C27: parse_cis_tuple_table raises SDIODataError if and only if, before an
\* END byte or the end of the buffer, it meets a link byte 0 or a tuple longer
\* than 100 bytes; a tuple of exactly 100 bytes is accepted.
C27_RaisesIffMalformed ==
    Parsed => (ParseRaised <=> TupleWise(fx.cis_data, (fx.addr % 256) + 1) = "raise")

\* C27 happens: a tuple of 100 bytes followed by one of 101 bytes, which raises.
C27_Witness ==
    /\ Parsed /\ ParseRaised
    /\ fx.cis_data = Tuple(21, 98, 1) \o Tuple(22, 99, 2) \o <<255>>
    /\ fx.st.return_tuples = <<Tuple(21, 98, 1)>>

\* C27 happens: a link byte 0 raises.
C27_WitnessLink == Parsed /\ ParseRaised /\ fx.cis_data = <<32, 0>>

\* C27 happens: two tuples of 100 bytes and no END byte; nothing is raised.
C27_WitnessAccepted ==
    /\ Parsed /\ ~ParseRaised /\ fx.cis_data = Tuple(21, 98, 1) \o Tuple(22, 98, 2)

\* ------------------------------------------------- SpecRead: data_bus_read

\* get_bits_and_shift of crc16_array_prep: {byte[bit1], byte[bit0]} << shift
get_bits_and_shift(byte, bit1, bit0, shift) ==
    (Bit(byte, bit1) * 2 + Bit(byte, bit0)) * 2 ^ shift

\* sdio_utils.crc16_array_prep(4, data), the bytes of lane `lane`: each byte
\* of data gives the lane two bits, four bytes of data fill one byte of the
\* lane, and what is left over is always appended.
crc16_array_prep(data, lane) ==
    LET n == IF Len(data) = 0 THEN 1 ELSE (Len(data) + 3) \div 4
        part(j, i) == IF 4 * (j - 1) + i + 1 <= Len(data)
                        THEN get_bits_and_shift(data[4 * (j - 1) + i + 1], 4 + lane, lane,
                                                6 - 2 * i)
                        ELSE 0
    IN  [j \in 1..n |-> part(j, 0) + part(j, 1) + part(j, 2) + part(j, 3)]

StartWindowNs == 1000000   \* the 1 ms data_bus_read waits for the start bit

\* The arguments of data_bus_read tried (timeout 0 is None), and the device:
\* the clock period in ns, the rising edge from which D0 is low (0: low at the
\* call, 9: after every window), the bytes sent, and the lane whose CRC16 is
\* sent with a wrong bit (-1: none).  `compared` is history: the CRC16s were
\* compared.
ReadCounts == {0, 1, 2}
ReadTimeouts == {0, 3}
ClockPeriods == {250000, 300000}
StartEdges == {0, 2, 3, 4, 9}
FaultLanes == {-1, 0, 3}
DeviceBytes == <<165, 60>>

NoCrc == [lane \in 0..3 |-> 0]

FxRead ==
    {[f |-> "data_bus_read", count |-> c, timeout |-> t, could_abort |-> ca,
      final_block |-> fb, period |-> p, start |-> s, fault |-> fl,
      pc |-> "start", edges |-> 0, timeout_count |-> 0, data |-> <<>>, crc |-> NoCrc,
      crc_bits |-> 0, compared |-> FALSE, status |-> "none", done |-> FALSE]:
        c \in ReadCounts, t \in ReadTimeouts, ca \in BOOLEAN, fb \in BOOLEAN,
        p \in ClockPeriods, s \in StartEdges, fl \in FaultLanes}

\* The lanes data_bus_read samples: D0..D3 of the native driver on a four-bit
\* bus, else D0 (MISO in SPI mode).
Lanes == IF ~spi_mode /\ bus_width = 4 THEN 0..3 ELSE {0}

\* The bits the device shifts out on a lane for the bytes it sends: on a
\* four-bit bus bit 4+lane then bit lane of each byte, else every bit of each
\* byte, most significant first.
RECURSIVE LaneStream(_, _)
LaneStream(bytes, lane) ==
    IF bytes = <<>> THEN <<>>
    ELSE (IF Lanes = {0} THEN [i \in 1..8 |-> Bit(Head(bytes), 8 - i)]
          ELSE <<Bit(Head(bytes), 4 + lane), Bit(Head(bytes), lane)>>)
         \o LaneStream(Tail(bytes), lane)

\* The CRC16 the device sends on a lane.
SentCrc(lane) ==
    LET good == Crc16Ref(LaneStream(SubSeq(DeviceBytes, 1, fx.count), lane), 1, 0)
    IN  IF fx.fault = lane THEN flip_bit(good, 0) ELSE good

\* The byte data_bus_read puts together from the samples of the lanes: two
\* samples of D3..D0 on a four-bit bus, else eight samples of D0.
current_byte(n) ==
    IF Lanes = {0} THEN FieldSum([i \in 0..7 |-> Bit(DeviceBytes[n], i)], 7, 0)
    ELSE (DeviceBytes[n] \div 16) * 16 + (DeviceBytes[n] % 16)

\* A variant of crc_pass that looks at lane 0 alone: it shows that C28
\* depends on the CRC16 of every lane being compared.
crc_pass_lane0(data, crc, count) ==
    IF Lanes = {0} THEN crc[0] = crc16_gen(data, count * 8)
    ELSE crc[0] = crc16_gen(crc16_array_prep(data, 0), count * 2)

\* crc_pass of data_bus_read: the received CRC16 of each lane against
\* crc16_gen of the received bytes (of the lane's share of them).
crc_pass(data, crc, count) ==
    IF Lanes = {0} THEN crc[0] = crc16_gen(data, count * 8)
    ELSE \A lane \in 0..3: crc[lane] = crc16_gen(crc16_array_prep(data, lane), count * 2)

ReadRest ==
    UNCHANGED <<leaseVars, data_write_aborted, read_wait_asserted, spi_mode, fib, xs,
                abort_set_at, host, wire, sq, bus_width>>

Reading(pc) == fx.f = "data_bus_read" /\ ~fx.done /\ fx.pc = pc

ReadEnds(s, status) == [s EXCEPT !.pc = "done", !.done = TRUE, !.status = status]

\* D0 as the while test of the start-bit wait samples it.
StartBitSeen == fx.edges >= fx.start

\* A variant of timed_out that knows the cycle count alone: it shows that C30
\* depends on the 1 ms of simulated time when no cycle count is given.
timed_out_by_count(s) == s.timeout # 0 /\ s.timeout_count = s.timeout

\* timed_out after a pass of the start-bit wait: the cycle count has reached
\* timeout, or without a timeout 1 ms of simulated time has passed since the
\* call (the edges are fx.period apart).
timed_out(s) ==
    IF s.timeout # 0 THEN s.timeout_count = s.timeout
    ELSE s.edges * s.period >= StartWindowNs

\* One pass of the start-bit wait: a rising edge, then the cycle count or
\* the simulated time is looked at, and a timeout ends the read.
ReadWaitEdge ==
    /\ Reading("start") /\ ~StartBitSeen
    /\ LET s == [fx EXCEPT !.edges = @ + 1,
                           !.timeout_count = IF fx.timeout # 0 THEN @ + 1 ELSE @]
       IN  fx' = IF ~timed_out(s) THEN s
                 ELSE IF fx.could_abort THEN ReadEnds(s, "aborted")
                 ELSE ReadEnds(s, "SDIODataError")
    /\ UNCHANGED data_read_aborted
    /\ ReadRest

\* The start bit is seen: the wait is over.
ReadStartSeen ==
    /\ Reading("start") /\ StartBitSeen
    /\ fx' = [fx EXCEPT !.pc = IF fx.count = 0 THEN "crc" ELSE "byte"]
    /\ UNCHANGED data_read_aborted
    /\ ReadRest

\* One byte is received and appended, then the abort flag is polled.
ReadDataByte ==
    /\ Reading("byte")
    /\ LET s == [fx EXCEPT !.data = Append(@, current_byte(Len(fx.data) + 1))]
       IN  fx' = IF fx.could_abort /\ data_read_aborted THEN ReadEnds(s, "aborted")
                 ELSE IF Len(s.data) = fx.count THEN [s EXCEPT !.pc = "crc"]
                 ELSE s
    /\ UNCHANGED data_read_aborted
    /\ ReadRest

\* One bit of the CRC16 of each lane is sampled, bit 15 first, then the abort
\* flag is polled; after the sixteenth bit the CRC16s are compared.
ReadCrcEdge ==
    /\ Reading("crc")
    /\ LET bit == 15 - fx.crc_bits
           s == [fx EXCEPT !.crc_bits = @ + 1,
                   !.compared = fx.crc_bits = 15 /\ ~(fx.could_abort /\ data_read_aborted),
                   !.crc = [lane \in 0..3 |->
                              IF lane \in Lanes
                                THEN fx.crc[lane] + Bit(SentCrc(lane), bit) * 2 ^ bit
                                ELSE fx.crc[lane]]]
       IN  fx' = IF fx.could_abort /\ data_read_aborted THEN ReadEnds(s, "aborted")
                 ELSE IF s.crc_bits < 16 THEN s
                 ELSE IF crc_pass(s.data, s.crc, s.count)
                   THEN IF spi_mode /\ fx.final_block THEN [s EXCEPT !.pc = "cs"]
                        ELSE ReadEnds(s, "okay")
                 ELSE IF ~data_read_aborted THEN ReadEnds(s, "SDIODataError")
                 ELSE ReadEnds(s, "aborted")
    /\ UNCHANGED data_read_aborted
    /\ ReadRest

\* SPI, final block: chip select is released after one more edge, and after
\* eight further edges (data, "okay") is returned.
ReadReleaseCs ==
    /\ Reading("cs")
    /\ fx' = ReadEnds(fx, "okay")
    /\ UNCHANGED data_read_aborted
    /\ ReadRest

\* Another fibre sets phy.data_read_aborted while data_bus_read waits for a
\* rising edge.
OtherFibreAborts ==
    /\ fx.f = "data_bus_read" /\ ~fx.done
    /\ ~data_read_aborted
    /\ data_read_aborted' = TRUE
    /\ UNCHANGED fx
    /\ ReadRest

InitRead ==
    /\ LeaseInit /\ HostInit
    /\ host = init_state /\ wire = <<>> /\ sq = NoSq
    /\ bus_width \in {1, 4} /\ (spi_mode => bus_width = 1)
    /\ fx \in FxRead

NextRead ==
    \/ ReadWaitEdge
    \/ ReadStartSeen
    \/ ReadDataByte
    \/ ReadCrcEdge
    \/ ReadReleaseCs
    \/ OtherFibreAborts

SpecRead == InitRead /\ [][NextRead]_vars

\* ------------------------------------------------------ properties of SpecRead

ReadDone == fx.f = "data_bus_read" /\ fx.done

\* data_bus_read has ended after comparing the CRC16s: it sampled the sixteen
\* CRC bits and no poll of the abort flag ended it.
Compared == ReadDone /\ fx.compared

\* The received CRC16 of every lane in use is the CRC16 of the bits the lane
\* carried of the received bytes.
AllLanesMatch == \A lane \in Lanes: fx.crc[lane] = Crc16Ref(LaneStream(fx.data, lane), 1, 0)

\* C28: data_bus_read compares the received CRC16 of every lane with the CRC16
\* recomputed over the received bytes: a mismatch with data_read_aborted false
\* raises SDIODataError, a mismatch with data_read_aborted true returns
\* (data, "aborted") and raises nothing, and when all lanes match it returns
\* (data, "okay") with exactly `count` bytes.
C28_CrcPerLane ==
    /\ Compared =>
         IF AllLanesMatch
           THEN /\ fx.status = "okay"
                /\ Len(fx.data) = fx.count
                /\ fx.data = SubSeq(DeviceBytes, 1, fx.count)
           ELSE fx.status = (IF data_read_aborted THEN "aborted" ELSE "SDIODataError")
    /\ (ReadDone /\ fx.status = "okay") => Compared /\ AllLanesMatch

\* C28 happens: on a four-bit bus the CRC16 of lane 3 alone is wrong, and the
\* read of two bytes has raised.
C28_Witness ==
    /\ Compared /\ bus_width = 4 /\ fx.count = 2 /\ fx.fault = 3
    /\ fx.status = "SDIODataError" /\ fx.crc[0] = Crc16Ref(LaneStream(fx.data, 0), 1, 0)

\* C28 happens: a mismatch with the flag set, and two bytes read on four lanes.
C28_WitnessAborted ==
    Compared /\ ~AllLanesMatch /\ data_read_aborted /\ fx.status = "aborted"

C28_WitnessOkay ==
    Compared /\ bus_width = 4 /\ fx.count = 2 /\ fx.status = "okay" /\ fx.data = <<165, 60>>

C28_WitnessSpi ==
    Compared /\ spi_mode /\ fx.final_block /\ fx.count = 1 /\ fx.status = "okay"

\* A step of data_bus_read that ends with a poll of the abort flag: a byte
\* was received, or a CRC bit was sampled.
PollStep == fx.f = "data_bus_read" /\ fx.pc \in {"byte", "crc"} /\ fx' # fx

\* C29: data_read_aborted is polled after every received byte and after every
\* sampled CRC bit; once another fibre has set it, the read returns the bytes
\* received so far with "aborted" at the very next poll and raises nothing,
\* for every value of the could_abort argument.
C29_AbortAtNextPoll ==
    [][(PollStep /\ data_read_aborted) =>
          /\ fx'.done /\ fx'.status = "aborted"
          /\ fx'.data = SubSeq(DeviceBytes, 1, Len(fx'.data))]_vars

\* The same for the reads called with could_abort, which holds.
C29_WithCouldAbort ==
    [][(PollStep /\ data_read_aborted /\ fx.could_abort) =>
          /\ fx'.done /\ fx'.status = "aborted"
          /\ fx'.data = SubSeq(DeviceBytes, 1, Len(fx'.data))
          /\ Len(fx'.data) = Len(fx.data) + (IF fx.pc = "byte" THEN 1 ELSE 0)]_vars

\* The start-bit window of the call in rising edges: the caller's cycle count,
\* or the first edge at which 1 ms of simulated time has passed.
WindowEdges ==
    IF fx.timeout # 0 THEN fx.timeout ELSE (StartWindowNs + fx.period - 1) \div fx.period

\* D0 stays high on every edge of the window.
NoStartBitInWindow == fx.start > WindowEdges

\* C30: if no start bit (D0 = 0) appears within the start-bit window of
\* data_bus_read (the caller's cycle count, or 1 ms of simulated time), the
\* read ends there: with could_abort it returns (empty data, "aborted") and
\* raises nothing, otherwise it raises SDIODataError; and it never waits for a
\* further edge once the window has passed.
C30_StartBitWindow ==
    fx.f = "data_bus_read" =>
        /\ fx.edges <= WindowEdges
        /\ (NoStartBitInWindow /\ fx.edges = WindowEdges) =>
             /\ fx.done /\ fx.data = <<>> /\ ~fx.compared
             /\ fx.status = (IF fx.could_abort THEN "aborted" ELSE "SDIODataError")
        /\ (NoStartBitInWindow /\ fx.edges < WindowEdges) => fx.pc = "start" /\ ~fx.done

\* C30 happens: no cycle count, a clock of 300 us, no start bit: the read has
\* raised on the fourth edge.
C30_Witness ==
    /\ ReadDone /\ fx.timeout = 0 /\ fx.period = 300000 /\ fx.start = 9
    /\ ~fx.could_abort /\ fx.status = "SDIODataError" /\ fx.edges = 4

\* C30 happens: a cycle count of 3 and could_abort.
C30_WitnessCycles ==
    /\ ReadDone /\ fx.timeout = 3 /\ fx.start = 4 /\ fx.could_abort
    /\ fx.status = "aborted" /\ fx.edges = 3 /\ fx.data = <<>>

\* ------------------------------ SpecWrite: what the drivers put on the bus

\* v with bit n set to b
SetBit(v, n, b) == v - Bit(v, n) * 2 ^ n + b * 2 ^ n

\* The arguments of data_bus_write tried.
WriteBytes == {<<>>, <<165>>, <<165, 60>>, <<165, 60, 255, 1, 90>>}
WriteTimeouts == {1, 2, 9}

\* data_bus_write on `fx`: the direction and output vectors of the data lanes
\* (data_coco_dir, data_coco_out) and MOSI, with `log` the history of the
\* falling edges of the native driver (what the edge is for and the vectors
\* after it), `samples` the history of D0 on the rising edges of the native
\* status token, `busy_edges` the count of the rising edges spent in the busy
\* wait, `d0` the last sample of D0 and `ret` the value returned (-1: none).
FxWrite ==
    {[f |-> "data_bus_write", data |-> d, timeout |-> t, final_block |-> fb,
      pc |-> "call", dir |-> 0, out |-> 255, mosi |-> 1, cs_n |-> 0, log |-> <<>>,
      sent |-> 0, samples |-> <<>>, crc_resp |-> 0, status |-> 0, d0 |-> 1,
      timeout_count |-> 0, busy_edges |-> 0, err |-> "none", ret |-> -1,
      done |-> FALSE]:
        d \in WriteBytes, t \in WriteTimeouts, fb \in BOOLEAN}

WriteRest ==
    UNCHANGED <<leaseVars, hostVars, host, wire, sq, bus_width>>

Writing(pc) == fx.f = "data_bus_write" /\ ~fx.done /\ fx.pc = pc

Edge(s, kind) == [s EXCEPT !.log = Append(@, [kind |-> kind, dir |-> s.dir, out |-> s.out])]

WriteReturns(s, val) == [s EXCEPT !.pc = "done", !.done = TRUE, !.ret = val]

\* The bit times of the payload: two for each byte on a four-bit bus, else
\* eight (num_bits_to_crc after the payload).
payload_bits(data) == IF bus_width = 4 THEN 2 * Len(data) ELSE 8 * Len(data)

\* A variant of payload_out that sends byte[3:0] before byte[7:4]: it shows
\* that C36 depends on the upper nibble going first.
payload_out_low_first(data, n) ==
    IF bus_width = 4
      THEN LET byte == data[n \div 2 + 1]
           IN  (IF n % 2 = 0 THEN byte % 16 ELSE byte \div 16) + 240
      ELSE Bit(data[n \div 8 + 1], 7 - (n % 8)) + 254

\* What a bit time of the payload assigns to data_coco_out: on a four-bit bus
\* byte[7:4] then byte[3:0] with the upper four lanes at 1, else the bits of
\* the byte, bit 7 first, with the upper seven lanes at 1.
payload_out(data, n) ==
    IF bus_width = 4
      THEN LET byte == data[n \div 2 + 1]
           IN  (IF n % 2 = 0 THEN byte \div 16 ELSE byte % 16) + 240
      ELSE Bit(data[n \div 8 + 1], 7 - (n % 8)) + 254

\* The CRC16 data_bus_write sends on a lane.
write_crc(data, lane) ==
    IF bus_width = 4 THEN crc16_gen(crc16_array_prep(data, lane), payload_bits(data))
    ELSE crc16_gen(data, payload_bits(data))

\* data_bus_read on a four-bit bus: current_byte from two samples of the data
\* lanes, D3..D0 into bits 7..4 and then into bits 3..0.
read_byte(first, second) ==
    Bit(first, 3) * 128 + Bit(first, 2) * 64 + Bit(first, 1) * 32 + Bit(first, 0) * 16
    + Bit(second, 3) * 8 + Bit(second, 2) * 4 + Bit(second, 1) * 2 + Bit(second, 0)

\* data_bus_read: crc0..crc3 from sixteen samples of the data lanes, bit 15
\* first.
read_crc(samples, lane) == FieldSum([i \in 0..15 |-> Bit(samples[16 - i], lane)], 15, 0)

\* The native call up to its first falling edge: the lanes used are made
\* outputs.
WriteCall ==
    /\ Writing("call") /\ ~spi_mode
    /\ fx' = [fx EXCEPT !.pc = "start",
                !.dir = IF bus_width = 4 THEN 15 ELSE 1]
    /\ WriteRest

\* The start bit: the lanes used are driven to 0.
WriteStartBit ==
    /\ Writing("start")
    /\ fx' = Edge([fx EXCEPT !.pc = IF Len(fx.data) = 0 THEN "crc" ELSE "data",
                     !.out = IF bus_width = 4 THEN (fx.out \div 16) * 16
                             ELSE IF bus_width = 1 THEN SetBit(fx.out, 0, 0)
                             ELSE fx.out], "start")
    /\ WriteRest

\* One bit time of the payload.
WriteDataEdge ==
    /\ Writing("data")
    /\ LET last == fx.sent + 1 = payload_bits(fx.data)
       IN  fx' = Edge([fx EXCEPT !.out = payload_out(fx.data, fx.sent),
                         !.sent = IF last THEN 0 ELSE @ + 1,
                         !.pc = IF last THEN "crc" ELSE "data"], "data")
    /\ WriteRest

\* One bit time of the CRC16s, bit 15 first.  On a one-bit bus lane 0 is
\* assigned the bit or'ed with 0xfe, of which the lane takes the lowest bit.
WriteCrcEdge ==
    /\ Writing("crc")
    /\ LET bit == 15 - fx.sent
           lanes == [lane \in 0..3 |-> Bit(write_crc(fx.data, lane), bit)]
       IN  fx' = Edge([fx EXCEPT
                         !.out = IF bus_width = 4
                                   THEN (fx.out \div 16) * 16 + lanes[3] * 8 + lanes[2] * 4
                                        + lanes[1] * 2 + lanes[0]
                                   ELSE SetBit(fx.out, 0, (lanes[0] + 254) % 2),
                         !.sent = IF bit = 0 THEN 0 ELSE @ + 1,
                         !.pc = IF bit = 0 THEN "stop" ELSE "crc"], "crc")
    /\ WriteRest

\* The stop bit: data_coco_out <= 0xf and data_coco_dir <= 1.
WriteStopBit ==
    /\ Writing("stop")
    /\ fx' = Edge([fx EXCEPT !.out = 15, !.dir = 1, !.pc = "release"], "stop")
    /\ WriteRest

\* The falling edge after the stop bit: the bus goes to high impedance.
WriteRelease ==
    /\ Writing("release")
    /\ fx' = Edge([fx EXCEPT !.dir = 0, !.pc = "turn", !.sent = 0], "release")
    /\ WriteRest

\* The two cycles of turnaround and the edge after them; what D0 shows then
\* is only logged.
WriteTurnaround ==
    /\ Writing("turn")
    /\ fx' = IF fx.sent = 2 THEN [fx EXCEPT !.pc = "status", !.sent = 0, !.crc_resp = 0]
             ELSE [fx EXCEPT !.sent = @ + 1]
    /\ WriteRest

\* One of the five rising edges of the CRC status token: the first three
\* samples of D0 are or'ed into crc_resp at bits 0, 1 and 2.  After the fifth
\* a status other than 0x2 is returned, and the busy wait is entered if D0 is
\* low.
WriteStatusEdge ==
    /\ Writing("status")
    /\ \E b \in {0, 1}:
         LET i == fx.sent
             s == [fx EXCEPT !.sent = @ + 1, !.d0 = b, !.samples = Append(@, b),
                     !.crc_resp = IF i < 3 THEN @ + b * 2 ^ i ELSE @]
         IN  fx' = IF i < 4 THEN s
                   ELSE IF s.crc_resp # 2 THEN WriteReturns(s, s.crc_resp)
                   ELSE IF b = 0 THEN [s EXCEPT !.pc = "busy", !.timeout_count = 0]
                   ELSE WriteReturns(s, s.crc_resp)
    /\ WriteRest

\* One pass of the busy wait: a rising edge, the count against timeout, then
\* D0 is sampled for the while test.
WriteBusyEdge ==
    /\ Writing("busy")
    /\ \E b \in {0, 1}:
         LET s == [fx EXCEPT !.timeout_count = @ + 1, !.busy_edges = @ + 1]
         IN  fx' = IF s.timeout_count = s.timeout THEN WriteReturns(s, s.crc_resp)
                   ELSE IF b = 0 THEN [s EXCEPT !.d0 = b]
                   ELSE WriteReturns([s EXCEPT !.d0 = b], s.crc_resp)
    /\ WriteRest

\* What the SPI driver puts on MOSI, one bit a rising edge: the start token
\* (seven ones and a zero), the bytes and their CRC16, most significant bit
\* first.
spi_write_bits(data) ==
    <<1, 1, 1, 1, 1, 1, 1, 0>>
    \o [i \in 1..(8 * Len(data)) |-> Bit(data[(i - 1) \div 8 + 1], 7 - ((i - 1) % 8))]
    \o [i \in 1..16 |-> Bit(crc16_gen(data, 8 * Len(data)), 16 - i)]

\* SPI: a bit is set on MOSI and a rising edge passes; after the last bit of
\* the CRC16 MOSI is set back to 1.
SpiWriteEdge ==
    /\ Writing("call") /\ spi_mode
    /\ LET bits == spi_write_bits(fx.data)
           last == fx.sent + 1 = Len(bits)
       IN  fx' = [fx EXCEPT !.mosi = IF last THEN 1 ELSE bits[fx.sent + 1],
                    !.sent = IF last THEN 0 ELSE @ + 1,
                    !.pc = IF last THEN "spi_status" ELSE "call"]
    /\ WriteRest

\* The value data_bus_write of the SPI driver returns: status[3:1]
spi_status(status) == (status \div 2) % 8

\* SPI: one rising edge of a byte read for the status token, MISO into
\* status[bit], bit 7 first.  After the eighth a byte with bit 4 at 0 is the
\* token, whose bit 0 is asserted to be 1; the wait ends with the token or
\* when the count has reached timeout.
SpiStatusEdge ==
    /\ Writing("spi_status")
    /\ \E miso \in {0, 1}:
         LET bit == 7 - fx.sent
             s == [fx EXCEPT !.status = SetBit(@, bit, miso), !.sent = @ + 1]
             token == Bit(s.status, 4) = 0
             waited == [s EXCEPT !.timeout_count = @ + 8, !.sent = 0]
         IN  fx' = IF bit > 0 THEN s
                   ELSE IF token /\ Bit(s.status, 0) # 1
                     THEN [s EXCEPT !.pc = "done", !.done = TRUE, !.err = "AssertionError"]
                   ELSE IF token \/ waited.timeout_count >= fx.timeout
                     THEN [waited EXCEPT !.pc = "spi_busy", !.timeout_count = 0]
                   ELSE waited
    /\ WriteRest

\* The end of the SPI busy wait: chip select is released after a final block,
\* else status[3:1] is returned.
spi_busy_ends(s) ==
    IF s.final_block THEN [s EXCEPT !.pc = "cs"]
    ELSE WriteReturns(s, spi_status(s.status))

\* SPI: one rising edge of a byte read in the busy wait, which ends with a
\* byte whose bit 0 is 1 or when the count has reached timeout.
SpiBusyEdge ==
    /\ Writing("spi_busy")
    /\ \E miso \in {0, 1}:
         LET s == [fx EXCEPT !.d0 = miso, !.sent = @ + 1, !.busy_edges = @ + 1]
             waited == [s EXCEPT !.timeout_count = @ + 8, !.sent = 0]
         IN  fx' = IF s.sent < 8 THEN s
                   ELSE IF miso = 1 THEN spi_busy_ends([s EXCEPT !.sent = 0])
                   ELSE IF waited.timeout_count >= fx.timeout THEN spi_busy_ends(waited)
                   ELSE waited
    /\ WriteRest

\* SPI, final block: chip select is released after one more edge, and after
\* eight further edges status[3:1] is returned.
SpiWriteRelease ==
    /\ Writing("cs")
    /\ fx' = WriteReturns([fx EXCEPT !.cs_n = 1], spi_status(fx.status))
    /\ WriteRest

\* send_cmd of the native driver on `fx`: the frame, the bit x to send next,
\* cmd_coco_dir and cmd_coco_out, and `log` the history of the falling edges
\* (the bit sent and the direction after the edge).
FxSendEdges ==
    {[f |-> "send_cmd", cmd |-> command_frame(mc[1], mc[2]), pc |-> "call", x |-> 47,
      cmd_dir |-> 0, cmd_out |-> 1, log |-> <<>>, done |-> FALSE]: mc \in MethodCalls}

\* send_cmd up to its first falling edge: the CRC7 goes into cmd[7:1] and the
\* command line is made an output.
SendCmdCall ==
    /\ fx.f = "send_cmd" /\ ~fx.done /\ fx.pc = "call"
    /\ fx' = [fx EXCEPT !.cmd = send_cmd(fx.cmd), !.cmd_dir = 1, !.pc = "edges"]
    /\ WriteRest

\* A variant of cmd_bit that counts from the other end of the frame: it shows
\* that C34 depends on bit 47 going out first.
cmd_bit_from_bit0(cmd, x) == cmd[47 - x]

\* The bit of the frame a falling edge of send_cmd puts on the command line.
cmd_bit(cmd, x) == cmd[x]

\* One falling edge of send_cmd: cmd[x] goes out, and with bit 0 the line is
\* released.
SendCmdEdge ==
    /\ fx.f = "send_cmd" /\ ~fx.done /\ fx.pc = "edges"
    /\ LET dir == IF fx.x = 0 THEN 0 ELSE fx.cmd_dir
           out == cmd_bit(fx.cmd, fx.x)
       IN  fx' = [fx EXCEPT !.cmd_out = out, !.cmd_dir = dir,
                    !.log = Append(@, [x |-> fx.x, out |-> out, dir |-> dir]),
                    !.x = IF fx.x = 0 THEN 0 ELSE @ - 1,
                    !.pc = IF fx.x = 0 THEN "done" ELSE "edges",
                    !.done = fx.x = 0]
    /\ WriteRest

\* The drivers start with the data lanes as inputs (the SPI driver drives
\* chip select on D3, which data_bus_write leaves alone) and the bus at the
\* width set_bus_width has set; the SPI driver has one lane.
InitWrite ==
    /\ LeaseInit /\ HostInit /\ host = init_state /\ wire = <<>> /\ sq = NoSq
    /\ bus_width \in {1, 4}
    /\ spi_mode => bus_width = 1
    /\ fx \in FxWrite \cup {s \in FxSendEdges: ~spi_mode}

NextWrite ==
    \/ WriteCall
    \/ WriteStartBit
    \/ WriteDataEdge
    \/ WriteCrcEdge
    \/ WriteStopBit
    \/ WriteRelease
    \/ WriteTurnaround
    \/ WriteStatusEdge
    \/ WriteBusyEdge
    \/ SpiWriteEdge
    \/ SpiStatusEdge
    \/ SpiBusyEdge
    \/ SpiWriteRelease
    \/ SendCmdCall
    \/ SendCmdEdge

SpecWrite == InitWrite /\ [][NextWrite]_vars

\* ----------------------------------------------------- properties of SpecWrite

\* The native data_bus_write has passed the falling edge after its stop bit.
DriveDone ==
    /\ fx.f = "data_bus_write" /\ ~spi_mode
    /\ fx.pc \in {"turn", "status", "busy", "done"}

\* The falling edges of a finished drive carry the start bit, the payload of
\* each lane, the CRC16 of each lane from bit 15 down and a stop bit of ones,
\* and there is one more edge.
DriveBits ==
    LET log == fx.log
        p == IF bus_width = 4 THEN 2 * Len(fx.data) ELSE 8 * Len(fx.data)
    IN  /\ Len(log) = 1 + p + 16 + 1 + 1
        /\ log[1].kind = "start" /\ \A lane \in Lanes: Bit(log[1].out, lane) = 0
        /\ \A i \in 1..p:
             /\ log[1 + i].kind = "data"
             /\ \A lane \in Lanes: Bit(log[1 + i].out, lane) = LaneStream(fx.data, lane)[i]
        /\ \A j \in 1..16:
             /\ log[1 + p + j].kind = "crc"
             /\ \A lane \in Lanes:
                  Bit(log[1 + p + j].out, lane)
                    = Bit(Crc16Ref(LaneStream(fx.data, lane), 1, 0), 16 - j)
        /\ log[p + 18].kind = "stop" /\ \A lane \in Lanes: Bit(log[p + 18].out, lane) = 1
        /\ log[p + 19].kind = "release"

\* Every lane used is an output after each of the first n falling edges.
HeldFor(n) == \A i \in 1..n: \A lane \in Lanes: Bit(fx.log[i].dir, lane) = 1

\* No lane used is an output after the last falling edge.
ReleasedAtLast == \A lane \in Lanes: Bit(fx.log[Len(fx.log)].dir, lane) = 0

\* C31: the native data_bus_write of n bytes drives, on consecutive falling
\* edges, a start bit of zeros, the payload (8n bit times, or 2n nibble times
\* upper nibble first), 16 CRC bit times from bit 15 down and a stop bit of
\* ones; every lane used is driven by the host from the start bit through the
\* stop bit and released only on the edge after the stop bit.
C31_DriveSequence ==
    DriveDone => DriveBits /\ HeldFor(Len(fx.log) - 1) /\ ReleasedAtLast

\* On a one-bit bus that is so; on a four-bit bus the bits are as stated, but
\* D1..D3 are outputs only up to the last bit of the CRC16s: the stop bit
\* assigns 1 to the whole of data_coco_dir, which leaves D0 alone an output.
C31_ReleasedOnStopBit ==
    DriveDone =>
        /\ DriveBits /\ ReleasedAtLast
        /\ HeldFor(Len(fx.log) - 2)
        /\ bus_width = 1 => HeldFor(Len(fx.log) - 1)
        /\ bus_width = 4 => fx.log[Len(fx.log) - 1].dir = 1

\* data_bus_write has ended, by a return or by an exception.
WriteEnded == fx.f = "data_bus_write" /\ fx.done

\* The three status bits of the token the native driver sampled.
SampledStatus == fx.samples[1] + 2 * fx.samples[2] + 4 * fx.samples[3]

\* What C32 says of the end of data_bus_write: nothing is raised, the busy
\* wait is entered only after an accepted status, and it lasts at most
\* `timeout` rising edges.
EndsAsClaimed ==
    /\ WriteEnded => fx.err = "none"
    /\ fx.busy_edges <= fx.timeout

\* C32: data_bus_write samples the CRC status token after the turnaround and
\* returns its three status bits, waits for D0 to go high only when the
\* status is 0b010, gives up that wait after at most `timeout` rising edges,
\* and never raises because of the status or the busy timeout.
C32_StatusReturnedNeverRaised ==
    fx.f = "data_bus_write" =>
        /\ EndsAsClaimed
        /\ WriteEnded /\ ~spi_mode => fx.ret = SampledStatus
        /\ fx.busy_edges > 0 /\ ~spi_mode => SampledStatus = 2

\* The native driver does all of that.
C32_NativeDriver ==
    fx.f = "data_bus_write" /\ ~spi_mode =>
        /\ EndsAsClaimed
        /\ WriteEnded => fx.ret = SampledStatus /\ Len(fx.samples) = 5
        /\ fx.busy_edges > 0 => SampledStatus = 2

\* The SPI driver raises AssertionError on a token whose bit 0 is 0.
C32_SpiNeverRaises == WriteEnded /\ spi_mode => fx.err = "none"

\* The SPI driver waits while MISO is low whatever the status was, and for up
\* to the next multiple of eight edges.
C32_SpiBusyWait ==
    fx.f = "data_bus_write" /\ spi_mode /\ fx.busy_edges > 0 =>
        spi_status(fx.status) = 2 /\ fx.busy_edges <= fx.timeout

\* ------------------------------------------ properties of Spec: the write path

\* The write of fibre 1 is at the boundary before a block (the padding is
\* over) in block mode, with the abort flag set.
AbortedAtBoundary == InPhase("wpad") /\ xs.block = 1 /\ data_write_aborted

\* C33: in a block-mode write, if data_write_aborted is set when the host
\* reaches the boundary before block k, the call returns without raising,
\* blocks k and later are never driven (the blocks before k were, and nothing
\* is driven after the return), and data_write_aborted is false when the call
\* returns.
C33_WriteAbortAtBoundary ==
    [][/\ AbortedAtBoundary /\ fib'[1] # fib[1]
         => /\ fib'[1].pc = "done" /\ fib'[1].out.kind = "return"
            /\ Len(xs.log) = xs.blockcount
            /\ xs'.log = xs.log
            /\ ~data_write_aborted'
       /\ Terminated(1) => xs'.log = xs.log]_vars

\* C33 happens: a write of two blocks returned at the boundary before the
\* second, with the first block driven and the flag cleared.
C33_Witness ==
    /\ Returned(1, "cmd_io_rw_extended") /\ fib[1].call.rw = 1
    /\ xs.block = 1 /\ xs.count = 2
    /\ xs.path = "aborted"
    /\ xs.blockcount = 1 /\ Len(xs.log) = 1 /\ xs.log[1].op = "write"
    /\ ~data_write_aborted

\* data_bus_write of fibre 1's write has returned a status to the host.
StatusReturned == InPhase("wdata") /\ fib'[1] # fib[1]

\* C40: a write through cmd_io_rw_extended ignores the CRC status the PHY
\* returns: whatever the status of a block, rejected or accepted, the host
\* raises nothing, goes on to the next block when there is one, and after the
\* last block returns 0 with every block transmitted.
C40_StatusIgnored ==
    [][StatusReturned =>
         /\ xs'.crc_resp \in CrcRespVals
         /\ IF xs.blockcount + 1 < blocks(xs)
              THEN fib'[1].pc = "wpad" /\ xs'.blockcount = xs.blockcount + 1
              ELSE /\ fib'[1].pc = "done" /\ fib'[1].out = [kind |-> "return", val |-> 0]
                   /\ xs'.path = "normal"
                   /\ Len(xs'.log) = blocks(xs)]_vars

\* C40 happens: the second of two blocks is on the data lines after the
\* device rejected the first.
C40_Witness ==
    /\ InPhase("wdata") /\ fib[1].call.rw = 1
    /\ xs.block = 1 /\ xs.count = 2 /\ xs.blockcount = 1
    /\ xs.crc_resp = 5
    /\ Len(xs.log) = 2

\* And it ends: a write of two blocks, the last rejected, returned 0.
C40_WitnessReturn ==
    /\ Returned(1, "cmd_io_rw_extended") /\ fib[1].call.rw = 1
    /\ xs.block = 1 /\ xs.count = 2 /\ xs.path = "normal"
    /\ xs.crc_resp = 5 /\ fib[1].out.val = 0
    /\ Len(xs.log) = 2

\* send_cmd is between its call and the falling edge of bit 0.
SendInProgress == fx.f = "send_cmd" /\ fx.pc = "edges"

\* C34: the native send_cmd drives the 48 bits of the frame on 48 consecutive
\* falling edges, bit 47 first and bit 0 last; cmd_dir is 1 from the start of
\* the call until the edge of bit 0, on which it goes back to 0, so cmd_dir is
\* 0 whenever no send_cmd is in progress.
C34_SendCmdEdges ==
    fx.f = "send_cmd" =>
        /\ Len(fx.log) <= 48
        /\ \A i \in 1..Len(fx.log):
             /\ fx.log[i].x = 48 - i
             /\ fx.log[i].out = fx.cmd[48 - i]
             /\ fx.log[i].dir = (IF i = 48 THEN 0 ELSE 1)
        /\ fx.done <=> Len(fx.log) = 48
        /\ fx.cmd_dir = (IF SendInProgress THEN 1 ELSE 0)
        /\ Len(fx.log) > 0 => fx.cmd_out = fx.log[Len(fx.log)].out

\* C34 happens: a CMD52 frame has gone out whole, its start bit first and its
\* end bit last, and the command line is released.
C34_Witness ==
    /\ fx.f = "send_cmd" /\ fx.done
    /\ Len(fx.log) = 48
    /\ fx.log[1].out = 0 /\ fx.log[2].out = 1 /\ fx.log[48].out = 1
    /\ FieldSum(fx.cmd, 45, 40) = 52
    /\ fx.cmd_dir = 0

\* ------------------------------------------- properties of SpecFn: crc16_gen

\* The bits of a sequence of bytes, bit 7 of each byte first.
BitsOf(data) == [i \in 1..(8 * Len(data)) |-> Bit(data[(i - 1) \div 8 + 1], 7 - ((i - 1) % 8))]

Crc16Applied == fx.f = "crc16_gen" /\ fx.done

\* C35: crc16_gen(data, n) is the CCITT CRC16 (polynomial 0x1021, zero initial
\* value, most significant bit first) of exactly the first n bits of data, for
\* every n from 0 to 8 * len(data).
C35_Crc16OfFirstBits ==
    Crc16Applied => fx.rv = Crc16Ref(SubSeq(BitsOf(fx.data), 1, fx.num_bits), 1, 0)

\* That is so for every n but 0: with n = 0 the count never comes down to 0
\* and the loops run over all the bits of data.
C35_ButZeroBits ==
    Crc16Applied =>
        fx.rv = Crc16Ref(SubSeq(BitsOf(fx.data), 1,
                                IF fx.num_bits = 0 THEN 8 * Len(fx.data) ELSE fx.num_bits),
                         1, 0)

\* A four-bit drive of fx.data is over; what data_bus_read with count =
\* len(data) samples from it on the rising edges after the start bit: the
\* bytes, and the sixteen samples of the CRC16s.
FourBitDriveDone == DriveDone /\ bus_width = 4

SampledBytes ==
    [n \in 1..Len(fx.data) |-> read_byte(fx.log[2 * n].out, fx.log[2 * n + 1].out)]

SampledCrc ==
    LET p == 2 * Len(fx.data)
        samples == [j \in 1..16 |-> fx.log[1 + p + j].out]
    IN  [lane \in 0..3 |-> read_crc(samples, lane)]

\* The bits of a lane packed into bytes, first bit highest, the last byte
\* filled up with zeros (one zero byte for no bits).
PackedLane(bits) ==
    LET n == IF Len(bits) = 0 THEN 1 ELSE (Len(bits) + 7) \div 8
        bit(i) == IF i <= Len(bits) THEN bits[i] ELSE 0
    IN  [j \in 1..n |-> FieldSum([i \in 0..7 |-> bit(8 * j - i)], 7, 0)]

\* C36: on a four-bit bus, for every byte sequence B, the nibbles and the
\* CRC16s data_bus_write drives, sampled by data_bus_read with count = len(B),
\* give B back and pass the CRC check on all four lanes; lane Dk carries bit
\* k+4 and then bit k of each byte, and its CRC16 is crc16_gen over the lane's
\* packed bytes with 2 * len(B) as the bit count.
C36_FourBitRoundTrip ==
    FourBitDriveDone =>
        /\ SampledBytes = fx.data
        /\ crc_pass(SampledBytes, SampledCrc, Len(fx.data))
        /\ \A lane \in 0..3:
             /\ \A n \in 1..Len(fx.data):
                  /\ Bit(fx.log[2 * n].out, lane) = Bit(fx.data[n], lane + 4)
                  /\ Bit(fx.log[2 * n + 1].out, lane) = Bit(fx.data[n], lane)
             /\ SampledCrc[lane]
                  = crc16_gen(PackedLane(LaneStream(fx.data, lane)), 2 * Len(fx.data))

\* C36 happens: five bytes, which take more than one packed byte a lane, have
\* gone out on the four lanes.
C36_Witness ==
    /\ FourBitDriveDone
    /\ Len(fx.data) = 5
    /\ SampledBytes = <<165, 60, 255, 1, 90>>
    /\ Len(PackedLane(LaneStream(fx.data, 3))) = 2
    /\ SampledCrc[0] # SampledCrc[3]

\* ------------------------------- properties of SpecInit: the functions found

\* C37: after every successful sdio_init, whatever preceded it (an earlier
\* sdio_init with no soft_reset in between included), fn_count is 1 plus the
\* number of functions 1..7 whose FBR byte 0 has a non-zero low nibble.
C37_FnCount == InitReturned => host.fn_count = 1 + Cardinality(sq.present)

\* That is so after the first sdio_init on a host; a later one counts on top
\* of what the earlier one left.
C37_FirstCall ==
    InitReturned =>
        /\ sq.calls = 1 => host.fn_count = 1 + Cardinality(sq.present)
        /\ host.fn_count >= 1 + Cardinality(sq.present)

\* The block size the CIS table at function fn's own CIS pointer gives.
OwnBlockSize(fn) == fn_blocksize(host.cis_data, host.fn_cis_addrs, fn)

\* C38: for every function fn in 1..7 that sdio_init found present, contiguous
\* numbering or not, fn_max_blocksizes[fn] after a successful sdio_init is the
\* value of the 0x22 tuple of the CIS table at fn_cis_addrs[fn]; the entry of
\* a function that is not present stays 0.
C38_BlockSizeOfPresent ==
    InitReturned =>
        \A fn \in 1..7:
            IF fn \in sq.present
              THEN /\ OwnBlockSize(fn).err = "none"
                   /\ host.fn_max_blocksizes[fn] = OwnBlockSize(fn).size
              ELSE host.fn_max_blocksizes[fn] = 0

\* That is so after the first sdio_init on a host when the functions present
\* are numbered from 1 without a gap: the loop over the block sizes runs over
\* the indices 1..fn_count-1, not over the functions found.
C38_ContiguousFunctions ==
    InitReturned /\ sq.calls = 1 /\ sq.present = 1..(host.fn_count - 1) =>
        \A fn \in 1..7:
            IF fn \in sq.present
              THEN /\ OwnBlockSize(fn).err = "none"
                   /\ host.fn_max_blocksizes[fn] = OwnBlockSize(fn).size
              ELSE host.fn_max_blocksizes[fn] = 0

\* ------------------------------------------------ SpecLeaseFair: the lease, fair

\* The scheduler runs every fibre whose trigger has fired, and every fibre
\* that holds the lease comes to call release_cmd_lock.
SpecLeaseFair ==
    /\ SpecLease
    /\ \A f \in Fibres: WF_vars(LeaseResume(f)) /\ WF_vars(LeaseRelease(f))

\* C39: under a fair scheduler, if every fibre that holds the lease comes to
\* call release_cmd_lock, every fibre that calls acquire_cmd_lock returns from
\* it: a fibre suspended in the wait is woken and gets the lease, whatever the
\* interleaving of acquires and releases.
C39_AcquireReturns ==
    \A f \in Fibres: (lock[f] \in {"waiting", "woken"}) ~> (lock[f] = "held")

\* C39 happens: a release has woken two fibres that waited.
C39_Witness ==
    /\ ~cmd_bus_busy /\ event_fired
    /\ \E f, g \in Fibres: f # g /\ lock[f] = "woken" /\ lock[g] = "woken"

\* A fibre waits only while another holds the lease, and the event is not set
\* while the bus is busy (so wait() never returns at once).
C39_WaitersHaveHolder ==
    /\ cmd_bus_busy => Holders # {} /\ ~event_fired
    /\ (\E f \in Fibres: lock[f] = "waiting") => cmd_bus_busy
    /\ \A f \in Fibres: lock[f] = "waiting" <=> InSeq(event_pending, f)

====
